---- MODULE Spec2Model ----
(***************************************************************************)
(* The filesystem reference database of libgit2 (src/refdb_fs.c).          *)
(*                                                                         *)
(* Text is modelled as sequences of integers.  A character is its ASCII    *)
(* code.  The 40 hexadecimal characters of an object id are one token:     *)
(* HexTok(o) stands for the 40 characters git_oid_fmt prints for oid o.    *)
(* A reference name is the sequence of its characters.                     *)
(***************************************************************************)
EXTENDS Integers, Sequences, FiniteSets, TLC

(***************************************************************************)
(* Bounds of the model.                                                    *)
(***************************************************************************)
\* object ids are 1..MaxOid; 0 is the all-zero oid of a calloc'ed struct
MaxOid == 2
\* the modification time of packed-refs is a counter; no packed-refs commit
\* happens once it has reached MaxMtime
MaxMtime == 2

(***************************************************************************)
(* Program constants.                                                      *)
(***************************************************************************)
PACKREF_HAS_PEEL == 1
PACKREF_WAS_LOOSE == 2
PACKREF_CANNOT_PEEL == 4
PACKREF_SHADOWED == 8

PEELING_NONE == 0
PEELING_STANDARD == 1
PEELING_FULL == 2

\* return codes: 0, -1, GIT_ENOTFOUND, GIT_EEXISTS (git2/errors.h values)
GIT_ENOTFOUND == -3
GIT_EEXISTS == -4

\* "ref: "
GIT_SYMREF == <<114, 101, 102, 58, 32>>
\* "refs/tags/"
GIT_REFS_TAGS_DIR == <<114, 101, 102, 115, 47, 116, 97, 103, 115, 47>>
\* "refs/"
GIT_REFS_DIR == <<114, 101, 102, 115, 47>>
\* "# pack-refs with: "
traits_header == <<35, 32, 112, 97, 99, 107, 45, 114, 101, 102, 115, 32,
                   119, 105, 116, 104, 58, 32>>
\* "peeled"
Str_peeled == <<112, 101, 101, 108, 101, 100>>
\* "fully-peeled"
Str_fully_peeled == <<102, 117, 108, 108, 121, 45>> \o Str_peeled
\* the header packed_write prints: "# pack-refs with: peeled"
GIT_PACKEDREFS_HEADER == traits_header \o Str_peeled

\* the path of the repository the backend was opened on: "/g/"
BackendPath == <<47, 103, 47>>

(***************************************************************************)
(* The reference names and object ids of the model.                        *)
(***************************************************************************)
\* "refs/a"
N_a == GIT_REFS_DIR \o <<97>>
\* "refs/a/b": refs/a is a strict path-prefix of it
N_a_b == N_a \o <<47, 98>>
\* "refs/ab": shares the text refs/a with the others, without the '/'
N_ab == N_a \o <<98>>

Names == {N_a, N_a_b, N_ab}

Oids == 1..MaxOid
ZeroOid == 0

\* the token standing for the 40 hex characters of oid o (git_oid_fmt)
HexTok(o) == 1000 + o
\* git_oid_fromstr: succeeds on 40 hex characters
IsHexTok(t) == t > 1000
OidOfTok(t) == t - 1000

(***************************************************************************)
(* String helpers (libc and git__ functions the code calls).               *)
(***************************************************************************)
\* git__prefixcmp(str, prefix) == 0
HasPrefix(str, prefix) ==
    /\ Len(str) >= Len(prefix)
    /\ \A i \in 1..Len(prefix) : str[i] = prefix[i]

\* strstr(hay, needle) != NULL
StrStr(hay, needle) ==
    \E i \in 0..(Len(hay) - Len(needle)) :
        \A j \in 1..Len(needle) : hay[i + j] = needle[j]

\* git__isspace
IsSpace(c) == c \in {32, 9, 10, 11, 12, 13}

\* git_buf_rtrim: drop trailing whitespace
RECURSIVE RTrim(_)
RTrim(s) ==
    IF Len(s) > 0 /\ IsSpace(s[Len(s)]) THEN RTrim(SubSeq(s, 1, Len(s) - 1))
    ELSE s

\* index of the first c in buf at or after position p, 0 when there is none
\* (memchr / strchr)
RECURSIVE IndexFrom(_, _, _)
IndexFrom(buf, p, c) ==
    IF p > Len(buf) THEN 0
    ELSE IF buf[p] = c THEN p
    ELSE IndexFrom(buf, p + 1, c)

\* strcmp(a, b) < 0
RECURSIVE StrLess(_, _)
StrLess(a, b) ==
    IF Len(b) = 0 THEN FALSE
    ELSE IF Len(a) = 0 THEN TRUE
    ELSE IF a[1] # b[1] THEN a[1] < b[1]
    ELSE StrLess(Tail(a), Tail(b))

\* git_buf_joinpath(root, name): root already ends with '/'
JoinPath(root, name) == root \o name

(***************************************************************************)
(* struct packref and the string map of the cache.                         *)
(***************************************************************************)
EmptyMap == [n \in {} |-> 0]

PackRef(name, oid, peel, flags) ==
    [name |-> name, oid |-> oid, peel |-> peel, flags |-> flags]

\* git_strmap_insert / git_strmap_insert2: an existing key is replaced
MapInsert(map, ref) ==
    [n \in (DOMAIN map) \cup {ref.name} |-> IF n = ref.name THEN ref ELSE map[n]]

\* git_strmap_delete_at
MapDelete(map, name) == [n \in (DOMAIN map) \ {name} |-> map[n]]

\* git_strmap_exists
MapExists(map, key) == key \in DOMAIN map

(***************************************************************************)
(* The pack parser.                                                        *)
(***************************************************************************)
ParseFail == [ok |-> FALSE, ref |-> PackRef(<<>>, ZeroOid, ZeroOid, {}), next |-> 0]

\* packed_parse_oid: "<40 hex> <name>\n" at position p of buf.  The name ends
\* at the next LF or at the end of the buffer; a CR before it is dropped.
packed_parse_oid(buf, p) ==
    LET refname_begin == p + 2
        buffer_end == Len(buf) + 1
    IN  IF refname_begin >= buffer_end \/ buf[refname_begin - 1] # 32
        THEN ParseFail
        ELSE IF ~IsHexTok(buf[p])
        THEN ParseFail
        ELSE LET lf == IndexFrom(buf, refname_begin, 10)
                 line_end == IF lf = 0 THEN buffer_end ELSE lf
                 refname_end == IF buf[line_end - 1] = 13 THEN line_end - 1
                                ELSE line_end
             IN  [ok |-> TRUE,
                  ref |-> PackRef(SubSeq(buf, refname_begin, refname_end - 1),
                                  OidOfTok(buf[p]), ZeroOid, {}),
                  next |-> refname_end + 1]

\* packed_parse_peel: "^<40 hex>\n" at position p of buf (buf[p] is '^')
packed_parse_peel(tag_ref, buf, p) ==
    LET buffer == p + 1
        buffer_end == Len(buf) + 1
    IN  IF buffer + 1 > buffer_end
        THEN ParseFail
        ELSE IF ~IsHexTok(buf[buffer])
        THEN ParseFail
        ELSE LET q == IF buffer + 1 < buffer_end /\ buf[buffer + 1] = 13
                      THEN buffer + 2 ELSE buffer + 1
             IN  IF q # buffer_end /\ buf[q] # 10
                 THEN ParseFail
                 ELSE [ok |-> TRUE,
                       ref |-> [tag_ref EXCEPT
                                   !.peel = OidOfTok(buf[buffer]),
                                   !.flags = @ \cup {PACKREF_HAS_PEEL}],
                       next |-> IF q = buffer_end THEN q ELSE q + 1]

\* packed_load, the traits header: [ok, mode, next]
ParseTraits(buf) ==
    IF Len(buf) > 0 /\ buf[1] = 35 /\ HasPrefix(buf, traits_header)
    THEN LET traits_begin == Len(traits_header) + 1
             traits_end == IndexFrom(buf, traits_begin, 10)
             traits == SubSeq(buf, traits_begin, traits_end - 1)
         IN  IF traits_end = 0
             THEN [ok |-> FALSE, mode |-> PEELING_NONE, next |-> 0]
             ELSE [ok |-> TRUE,
                   mode |-> IF StrStr(traits, <<32>> \o Str_fully_peeled \o <<32>>)
                            THEN PEELING_FULL
                            ELSE IF StrStr(traits, <<32>> \o Str_peeled \o <<32>>)
                            THEN PEELING_STANDARD
                            ELSE PEELING_NONE,
                   next |-> traits_end + 1]
    ELSE [ok |-> TRUE, mode |-> PEELING_NONE, next |-> 1]

\* packed_load, the comment lines: the position after them, 0 on a comment
\* that no LF ends
RECURSIVE SkipComments(_, _)
SkipComments(buf, p) ==
    IF p <= Len(buf) /\ buf[p] = 35
    THEN LET lf == IndexFrom(buf, p, 10)
         IN  IF lf = 0 THEN 0 ELSE SkipComments(buf, lf + 1)
    ELSE p

\* packed_load, the entries from position p on: [ok, map]
RECURSIVE ParseEntries(_, _, _, _)
ParseEntries(buf, p, mode, map) ==
    IF p > Len(buf) THEN [ok |-> TRUE, map |-> map]
    ELSE LET r == packed_parse_oid(buf, p)
         IN  IF ~r.ok THEN [ok |-> FALSE, map |-> EmptyMap]
             ELSE IF r.next <= Len(buf) /\ buf[r.next] = 94
             THEN LET q == packed_parse_peel(r.ref, buf, r.next)
                  IN  IF ~q.ok THEN [ok |-> FALSE, map |-> EmptyMap]
                      ELSE ParseEntries(buf, q.next, mode, MapInsert(map, q.ref))
             ELSE IF mode = PEELING_FULL
                     \/ (mode = PEELING_STANDARD
                         /\ HasPrefix(r.ref.name, GIT_REFS_TAGS_DIR))
             THEN ParseEntries(buf, r.next, mode,
                     MapInsert(map, [r.ref EXCEPT !.flags = @ \cup {PACKREF_CANNOT_PEEL}]))
             ELSE ParseEntries(buf, r.next, mode, MapInsert(map, r.ref))

\* packed_load after the read: the whole parse of a packed-refs buffer,
\* [ok, mode, map]
ParsePacked(buf) ==
    LET h == ParseTraits(buf)
        c == IF h.ok THEN SkipComments(buf, h.next) ELSE 0
        e == IF c = 0 THEN [ok |-> FALSE, map |-> EmptyMap]
             ELSE ParseEntries(buf, c, h.mode, EmptyMap)
    IN  [ok |-> e.ok, mode |-> h.mode, map |-> e.map]

(***************************************************************************)
(* The ref cache.  A backend is [has_map, packfile, packfile_time,         *)
(* peeling_mode]; has_map is FALSE while refcache.packfile is NULL.  The   *)
(* packed-refs file is [exists, mtime, buf].                               *)
(***************************************************************************)
NewBackend ==
    [has_map |-> FALSE, packfile |-> EmptyMap, packfile_time |-> 0,
     peeling_mode |-> PEELING_NONE]

\* a packed_load that does not clear the map before it parses the new file
packed_load_parsed_keep(b1, pf, r) ==
    IF r.ok
    THEN [rc |-> 0,
          b |-> [b1 EXCEPT !.packfile_time = pf.mtime,
                           !.peeling_mode = r.mode,
                           !.packfile =
                               [n \in (DOMAIN b1.packfile) \cup (DOMAIN r.map) |->
                                   IF n \in DOMAIN r.map THEN r.map[n]
                                   ELSE b1.packfile[n]]]]
    ELSE [rc |-> -1,
          b |-> [b1 EXCEPT !.packfile_time = pf.mtime,
                           !.peeling_mode = r.mode,
                           !.has_map = FALSE,
                           !.packfile = EmptyMap]]

\* packed_load once the file was read and found changed; r is the parse of it
packed_load_parsed(b1, pf, r) ==
    IF r.ok
    THEN [rc |-> 0,
          b |-> [b1 EXCEPT !.packfile_time = pf.mtime,
                           !.peeling_mode = r.mode,
                           !.packfile = r.map]]
    ELSE [rc |-> -1,
          b |-> [b1 EXCEPT !.packfile_time = pf.mtime,
                           !.peeling_mode = r.mode,
                           !.has_map = FALSE,
                           !.packfile = EmptyMap]]

\* packed_load: [rc, b]
packed_load(b, pf) ==
    LET b1 == IF ~b.has_map
              THEN [b EXCEPT !.has_map = TRUE, !.packfile = EmptyMap]
              ELSE b
    IN  IF ~pf.exists
        THEN [rc |-> 0, b |-> [b1 EXCEPT !.packfile = EmptyMap]]
        ELSE IF b1.packfile_time = pf.mtime
        THEN [rc |-> 0, b |-> b1]
        ELSE packed_load_parsed(b1, pf, ParsePacked(pf.buf))

(***************************************************************************)
(* The filesystem under the backend's root.  loose maps the name of every  *)
(* regular file under <root>/refs/ to its content; a directory exists      *)
(* where a file lies below it.                                             *)
(***************************************************************************)
\* a is a strict path-prefix of b: b continues a with a '/'
IsPathPrefix(a, b) ==
    /\ Len(a) < Len(b)
    /\ HasPrefix(b, a)
    /\ b[Len(a) + 1] = 47

\* git_path_isfile(path)
git_path_isfile(loose, path) ==
    \E n \in DOMAIN loose : JoinPath(BackendPath, n) = path

\* a non-empty directory lies at <root>/name
IsNonEmptyDir(loose, name) == \E m \in DOMAIN loose : IsPathPrefix(name, m)

\* a regular file lies on the way to <root>/name
ParentIsFile(loose, name) == \E m \in DOMAIN loose : IsPathPrefix(m, name)

\* reference_read of a loose file: [rc, buf]
reference_read(loose, ref_name) ==
    IF ref_name \in DOMAIN loose
    THEN [rc |-> 0, buf |-> loose[ref_name]]
    ELSE [rc |-> GIT_ENOTFOUND, buf |-> <<>>]

(***************************************************************************)
(* The loose reader.                                                       *)
(***************************************************************************)
\* a git_reference: type is "oid" (GIT_REF_OID), "symbolic" (GIT_REF_SYMBOLIC)
\* or "none" (no reference was allocated)
NoRef == [type |-> "none", name |-> <<>>, oid |-> ZeroOid, peel |-> ZeroOid,
          symbolic |-> <<>>]

\* git_reference__alloc(name, oid, peel)
git_reference__alloc(name, oid, peel) ==
    [type |-> "oid", name |-> name, oid |-> oid, peel |-> peel, symbolic |-> <<>>]

\* git_reference__alloc_symbolic(name, target)
git_reference__alloc_symbolic(name, target) ==
    [type |-> "symbolic", name |-> name, oid |-> ZeroOid, peel |-> ZeroOid,
     symbolic |-> target]

\* loose_parse_oid: [ok, oid]
loose_parse_oid(file_content) ==
    IF Len(file_content) < 1 \/ ~IsHexTok(file_content[1])
    THEN [ok |-> FALSE, oid |-> ZeroOid]
    ELSE IF Len(file_content) = 1 \/ IsSpace(file_content[2])
    THEN [ok |-> TRUE, oid |-> OidOfTok(file_content[1])]
    ELSE [ok |-> FALSE, oid |-> ZeroOid]

\* loose_parse_symbolic: [ok, target]
loose_parse_symbolic(file_content) ==
    IF Len(file_content) < Len(GIT_SYMREF) + 1
    THEN [ok |-> FALSE, target |-> <<>>]
    ELSE [ok |-> TRUE,
          target |-> SubSeq(file_content, Len(GIT_SYMREF) + 1, Len(file_content))]

\* loose_lookup: [rc, msg, ref]
loose_lookup(loose, ref_name) ==
    LET rd == reference_read(loose, ref_name)
    IN  IF rd.rc < 0 THEN [rc |-> rd.rc, msg |-> "notfound", ref |-> NoRef]
        ELSE IF HasPrefix(rd.buf, GIT_SYMREF)
        THEN LET t == loose_parse_symbolic(RTrim(rd.buf))
             IN  IF ~t.ok THEN [rc |-> -1, msg |-> "corrupt-loose", ref |-> NoRef]
                 ELSE [rc |-> 0, msg |-> "",
                       ref |-> git_reference__alloc_symbolic(ref_name, t.target)]
        ELSE LET o == loose_parse_oid(rd.buf)
             IN  IF ~o.ok THEN [rc |-> -1, msg |-> "corrupt-loose", ref |-> NoRef]
                 ELSE [rc |-> 0, msg |-> "",
                       ref |-> git_reference__alloc(ref_name, o.oid, ZeroOid)]

\* loose_lookup_to_packfile: [rc, ref]
loose_lookup_to_packfile(loose, name) ==
    LET rd == reference_read(loose, name)
        o == loose_parse_oid(RTrim(rd.buf))
    IN  IF rd.rc < 0 \/ ~o.ok
        THEN [rc |-> -1, ref |-> PackRef(name, ZeroOid, ZeroOid, {})]
        ELSE [rc |-> 0, ref |-> PackRef(name, o.oid, ZeroOid, {PACKREF_WAS_LOOSE})]

(***************************************************************************)
(* The view resolver.                                                      *)
(***************************************************************************)
\* packed_map_entry once packed_load has returned ld
packed_map_entry_loaded(ld, ref_name) ==
    IF ld.rc < 0 THEN [rc |-> -1, msg |-> "corrupt-packed", b |-> ld.b]
    ELSE IF ~MapExists(ld.b.packfile, ref_name)
    THEN [rc |-> GIT_ENOTFOUND, msg |-> "notfound", b |-> ld.b]
    ELSE [rc |-> 0, msg |-> "", b |-> ld.b]

\* packed_map_entry: [rc, msg, b]; on rc = 0 the entry is b.packfile[ref_name]
packed_map_entry(b, pf, ref_name) ==
    packed_map_entry_loaded(packed_load(b, pf), ref_name)

\* packed_lookup once packed_map_entry has returned me
packed_lookup_entry(me, ref_name) ==
    IF me.rc < 0 THEN [rc |-> me.rc, msg |-> me.msg, ref |-> NoRef, b |-> me.b]
    ELSE [rc |-> 0, msg |-> "",
          ref |-> git_reference__alloc(ref_name, me.b.packfile[ref_name].oid,
                                       me.b.packfile[ref_name].peel),
          b |-> me.b]

\* packed_lookup: [rc, msg, ref, b]
packed_lookup(b, pf, ref_name) ==
    packed_lookup_entry(packed_map_entry(b, pf, ref_name), ref_name)

\* the same with the order of the two representations swapped
lookup_packed_first(b, loose, pf, ref_name) ==
    LET pk == packed_lookup(b, pf, ref_name)
        ll == loose_lookup(loose, ref_name)
    IN  IF pk.rc = 0 THEN pk
        ELSE [rc |-> ll.rc, msg |-> ll.msg, ref |-> ll.ref, b |-> pk.b]

\* refdb_fs_backend__lookup: [rc, msg, ref, b]
refdb_fs_backend__lookup(b, loose, pf, ref_name) ==
    LET ll == loose_lookup(loose, ref_name)
    IN  IF ll.rc = 0 THEN [rc |-> 0, msg |-> "", ref |-> ll.ref, b |-> b]
        ELSE IF ll.rc = GIT_ENOTFOUND THEN packed_lookup(b, pf, ref_name)
        ELSE [rc |-> ll.rc, msg |-> ll.msg, ref |-> NoRef, b |-> b]

\* refdb_fs_backend__exists once packed_load has returned ld
exists_loaded(ld, loose, ref_path) ==
    IF ld.rc < 0 THEN [rc |-> -1, exists |-> FALSE, b |-> ld.b]
    ELSE [rc |-> 0,
          exists |-> git_path_isfile(loose, ref_path)
                     \/ MapExists(ld.b.packfile, ref_path),
          b |-> ld.b]

\* refdb_fs_backend__exists: [rc, exists, b]
refdb_fs_backend__exists(b, loose, pf, ref_name) ==
    exists_loaded(packed_load(b, pf), loose, JoinPath(BackendPath, ref_name))

(***************************************************************************)
(* The mutator: availability check and loose write.                        *)
(***************************************************************************)
\* ref_is_available; old_ref = <<>> stands for old_ref == NULL
ref_is_available(old_ref, new_ref, this_ref) ==
    IF old_ref = <<>> \/ old_ref # this_ref
    THEN LET reflen == Len(this_ref)
             newlen == Len(new_ref)
             cmplen == IF reflen < newlen THEN reflen ELSE newlen
             lead == IF reflen < newlen THEN new_ref ELSE this_ref
         IN  ~ ( /\ \A i \in 1..cmplen : new_ref[i] = this_ref[i]
                 /\ Len(lead) > cmplen
                 /\ lead[cmplen + 1] = 47 )
    ELSE TRUE

\* reference_path_available, the loop over the packed map: [rc, msg, b]
path_available_in_map(b, new_ref, old_ref) ==
    IF \E this_ref \in DOMAIN b.packfile :
           ~ref_is_available(old_ref, new_ref, this_ref)
    THEN [rc |-> -1, msg |-> "collides", b |-> b]
    ELSE [rc |-> 0, msg |-> "", b |-> b]

\* reference_path_available without force, once refdb_fs_backend__exists
\* has returned ex
path_available_exists(ex, new_ref, old_ref) ==
    IF ex.rc < 0 THEN [rc |-> -1, msg |-> "corrupt-packed", b |-> ex.b]
    ELSE IF ex.exists THEN [rc |-> GIT_EEXISTS, msg |-> "exists", b |-> ex.b]
    ELSE path_available_in_map(ex.b, new_ref, old_ref)

\* reference_path_available once packed_load has returned ld
path_available_loaded(ld, loose, pf, new_ref, old_ref, force) ==
    IF ld.rc < 0 THEN [rc |-> -1, msg |-> "corrupt-packed", b |-> ld.b]
    ELSE IF ~force
    THEN path_available_exists(
             refdb_fs_backend__exists(ld.b, loose, pf, new_ref), new_ref, old_ref)
    ELSE path_available_in_map(ld.b, new_ref, old_ref)

\* reference_path_available: [rc, msg, b]
reference_path_available(b, loose, pf, new_ref, old_ref, force) ==
    path_available_loaded(packed_load(b, pf), loose, pf, new_ref, old_ref, force)

\* what loose_write prints into the file
LooseContent(ref) ==
    IF ref.type = "oid" THEN <<HexTok(ref.oid), 10>>
    ELSE GIT_SYMREF \o ref.symbolic \o <<10>>

\* a loose_write that leaves a file that is already there as it is
loose_write_keep(loose, ref) ==
    IF ParentIsFile(loose, ref.name) \/ IsNonEmptyDir(loose, ref.name)
    THEN [rc |-> -1, msg |-> "os", loose |-> loose]
    ELSE [rc |-> 0, msg |-> "",
          loose |-> [n \in (DOMAIN loose) \cup {ref.name} |->
                        IF n \in DOMAIN loose THEN loose[n]
                        ELSE LooseContent(ref)]]

\* loose_write: [rc, msg, loose].  The lock file cannot be created below a
\* regular file, and cannot be renamed onto a directory that is not empty.
loose_write(loose, ref) ==
    IF ParentIsFile(loose, ref.name) \/ IsNonEmptyDir(loose, ref.name)
    THEN [rc |-> -1, msg |-> "os", loose |-> loose]
    ELSE [rc |-> 0, msg |-> "",
          loose |-> [n \in (DOMAIN loose) \cup {ref.name} |->
                        IF n = ref.name THEN LooseContent(ref) ELSE loose[n]]]

(***************************************************************************)
(* The compactor.                                                          *)
(***************************************************************************)
\* the object database: every second object is a tag of the object before it
OdbIsTag(oid) == oid % 2 = 0
OdbTagTarget(oid) == oid - 1

\* packed_sort / git_vector_sort: the names of S in strcmp order
RECURSIVE SortNames(_)
SortNames(S) ==
    IF S = {} THEN <<>>
    ELSE LET m == CHOOSE x \in S : \A y \in S \ {x} : StrLess(x, y)
         IN  <<m>> \o SortNames(S \ {m})

\* a packed_find_peel that looks up every entry without HAS_PEEL
NeedsPeelLookup_any(ref) == PACKREF_HAS_PEEL \notin ref.flags

\* packed_find_peel needs the object database for this entry
NeedsPeelLookup(ref) ==
    PACKREF_HAS_PEEL \notin ref.flags /\ PACKREF_CANNOT_PEEL \notin ref.flags

\* packed_find_peel with the object found
packed_find_peel(ref) ==
    IF ~NeedsPeelLookup(ref) THEN ref
    ELSE IF OdbIsTag(ref.oid)
    THEN [ref EXCEPT !.peel = OdbTagTarget(ref.oid),
                     !.flags = @ \cup {PACKREF_HAS_PEEL}]
    ELSE ref

\* a packed_write_ref that prints the oid of the entry on the peel line
packed_write_ref_oid(ref) ==
    IF PACKREF_HAS_PEEL \in ref.flags
    THEN <<HexTok(ref.oid), 32>> \o ref.name \o <<10, 94, HexTok(ref.oid), 10>>
    ELSE <<HexTok(ref.oid), 32>> \o ref.name \o <<10>>

\* packed_write_ref
packed_write_ref(ref) ==
    IF PACKREF_HAS_PEEL \in ref.flags
    THEN <<HexTok(ref.oid), 32>> \o ref.name \o <<10, 94, HexTok(ref.peel), 10>>
    ELSE <<HexTok(ref.oid), 32>> \o ref.name \o <<10>>

\* packed_write, the loop over the packing list from index i on:
\* [rc, map, buf].  With fault "odb" the first git_object_lookup fails.
RECURSIVE WriteLoop(_, _, _, _, _)
WriteLoop(map, list, i, buf, fault) ==
    IF i > Len(list) THEN [rc |-> 0, map |-> map, buf |-> buf]
    ELSE LET ref == map[list[i]]
         IN  IF fault = "odb" /\ NeedsPeelLookup(ref)
             THEN [rc |-> -1, map |-> map, buf |-> buf]
             ELSE LET peeled == packed_find_peel(ref)
                  IN  WriteLoop([map EXCEPT ![list[i]] = peeled], list, i + 1,
                                buf \o packed_write_ref(peeled), fault)

\* the loose names packed_remove_loose visits: entries that carry WAS_LOOSE
WasLooseNames(map) == {n \in DOMAIN map : PACKREF_WAS_LOOSE \in map[n].flags}

\* packed_remove_loose over the first k entries of the sorted list
\* that carry WAS_LOOSE: the files that remain
RemoveLoose(loose, map, k) ==
    LET list == SortNames(WasLooseNames(map))
        gone == {list[i] : i \in 1..(IF k < Len(list) THEN k ELSE Len(list))}
    IN  [n \in (DOMAIN loose) \ gone |-> loose[n]]

\* p_unlink fails on a directory
RemoveLooseFails(loose, map) ==
    \E n \in WasLooseNames(map) : IsNonEmptyDir(loose, n)

\* a commit that appends the buffer to the file that is there
CommitPacked_append(pf, buf) ==
    [exists |-> TRUE, mtime |-> pf.mtime + 1, buf |-> pf.buf \o buf]

\* the file git_filebuf_commit puts in place
CommitPacked(pf, buf) == [exists |-> TRUE, mtime |-> pf.mtime + 1, buf |-> buf]

\* packed_write once the loop over the packing list has returned w
packed_write_looped(b, loose, pf, fault, w) ==
    IF w.rc < 0 \/ fault = "commit"
    THEN [rc |-> -1, committed |-> FALSE,
          b |-> [b EXCEPT !.packfile = w.map], loose |-> loose, pf |-> pf]
    ELSE IF RemoveLooseFails(loose, w.map)
    THEN [rc |-> -1, committed |-> TRUE,
          b |-> [b EXCEPT !.packfile = w.map],
          loose |-> RemoveLoose(loose, w.map, Cardinality(Names)),
          pf |-> CommitPacked(pf, w.buf)]
    ELSE [rc |-> 0, committed |-> TRUE,
          b |-> [b EXCEPT !.packfile = w.map,
                         !.packfile_time = CommitPacked(pf, w.buf).mtime],
          loose |-> RemoveLoose(loose, w.map, Cardinality(Names)),
          pf |-> CommitPacked(pf, w.buf)]

\* packed_write: [rc, committed, b, loose, pf].  fault is "none", "odb"
\* (git_object_lookup fails) or "commit" (git_filebuf_commit fails).
packed_write(b, loose, pf, fault) ==
    packed_write_looped(b, loose, pf, fault,
        WriteLoop(b.packfile, SortNames(DOMAIN b.packfile), 1,
                  GIT_PACKEDREFS_HEADER \o <<10>>, fault))

(***************************************************************************)
(* The operations of the backend on (backend, loose files, packed-refs).   *)
(* Each yields [rc, msg, ref, exists, b, loose, pf].                       *)
(***************************************************************************)
Result(rc, msg, ref, exists, b, loose, pf) ==
    [rc |-> rc, msg |-> msg, ref |-> ref, exists |-> exists,
     b |-> b, loose |-> loose, pf |-> pf]

Unlink(loose, name) == [n \in (DOMAIN loose) \ {name} |-> loose[n]]

\* refdb_fs_backend__lookup
DoLookup(b, loose, pf, ref_name) ==
    LET r == refdb_fs_backend__lookup(b, loose, pf, ref_name)
    IN  Result(r.rc, r.msg, r.ref, FALSE, r.b, loose, pf)

\* refdb_fs_backend__exists
DoExists(b, loose, pf, ref_name) ==
    LET r == refdb_fs_backend__exists(b, loose, pf, ref_name)
    IN  Result(r.rc, IF r.rc < 0 THEN "corrupt-packed" ELSE "", NoRef, r.exists,
               r.b, loose, pf)

\* refdb_fs_backend__write once reference_path_available has returned av
write_available(av, loose, pf, ref) ==
    LET lw == loose_write(loose, ref)
    IN  IF av.rc < 0 THEN Result(av.rc, av.msg, NoRef, FALSE, av.b, loose, pf)
        ELSE Result(lw.rc, lw.msg, NoRef, FALSE, av.b, lw.loose, pf)

\* refdb_fs_backend__write
DoWrite(b, loose, pf, ref, force) ==
    write_available(reference_path_available(b, loose, pf, ref.name, <<>>, force),
                    loose, pf, ref)

\* what delete and compress return once packed_write has returned pw
PackedWritten(pw) ==
    Result(pw.rc, IF pw.rc < 0 THEN "os" ELSE "", NoRef, FALSE,
           pw.b, pw.loose, pw.pf)

\* refdb_fs_backend__delete once the loose file is unlinked (loose1) and
\* packed_map_entry has returned me
delete_entry(me, loose_deleted, loose1, pf, ref_name, fault) ==
    IF me.rc = GIT_ENOTFOUND
    THEN Result(IF loose_deleted THEN 0 ELSE GIT_ENOTFOUND,
                IF loose_deleted THEN "" ELSE "notfound",
                NoRef, FALSE, me.b, loose1, pf)
    ELSE IF me.rc = 0
    THEN PackedWritten(
             packed_write([me.b EXCEPT !.packfile = MapDelete(@, ref_name)],
                          loose1, pf, fault))
    ELSE Result(me.rc, me.msg, NoRef, FALSE, me.b, loose1, pf)

\* refdb_fs_backend__delete
DoDelete(b, loose, pf, ref_name, fault) ==
    LET loose_deleted == git_path_isfile(loose, JoinPath(BackendPath, ref_name))
    IN  delete_entry(packed_map_entry(b, pf, ref_name), loose_deleted,
                     IF loose_deleted THEN Unlink(loose, ref_name) ELSE loose,
                     pf, ref_name, fault)

\* refdb_fs_backend__rename once refdb_fs_backend__delete has returned del;
\* new is the old reference under its new name
rename_deleted(del, new) ==
    LET lw == loose_write(del.loose, new)
    IN  IF del.rc < 0
        THEN Result(del.rc, del.msg, NoRef, FALSE, del.b, del.loose, del.pf)
        ELSE IF lw.rc < 0
        THEN Result(lw.rc, lw.msg, NoRef, FALSE, del.b, del.loose, del.pf)
        ELSE Result(0, "", new, FALSE, del.b, lw.loose, del.pf)

\* refdb_fs_backend__rename once refdb_fs_backend__lookup has returned old
rename_found(old, loose, pf, old_name, new_name, fault) ==
    IF old.rc < 0 THEN Result(old.rc, old.msg, NoRef, FALSE, old.b, loose, pf)
    ELSE rename_deleted(DoDelete(old.b, loose, pf, old_name, fault),
                        [old.ref EXCEPT !.name = new_name])

\* refdb_fs_backend__rename once reference_path_available has returned av
rename_available(av, loose, pf, old_name, new_name, fault) ==
    IF av.rc < 0 THEN Result(av.rc, av.msg, NoRef, FALSE, av.b, loose, pf)
    ELSE rename_found(refdb_fs_backend__lookup(av.b, loose, pf, old_name),
                      loose, pf, old_name, new_name, fault)

\* refdb_fs_backend__rename
DoRename(b, loose, pf, old_name, new_name, force, fault) ==
    rename_available(
        reference_path_available(b, loose, pf, new_name, old_name, force),
        loose, pf, old_name, new_name, fault)

\* the loose files packed_loadloose can load, and those it fails on
LoadableLoose(loose) ==
    {n \in DOMAIN loose : loose_lookup_to_packfile(loose, n).rc = 0}

\* a packed_loadloose that marks an entry that is already in the map as
\* WAS_LOOSE and keeps its packed oid
LoadLooseKeepPacked(b, loose, seen) ==
    [b EXCEPT !.packfile =
        [n \in (DOMAIN b.packfile) \cup seen |->
            IF n \in seen /\ n \in DOMAIN b.packfile
            THEN [b.packfile[n] EXCEPT !.flags = @ \cup {PACKREF_WAS_LOOSE}]
            ELSE IF n \in seen THEN loose_lookup_to_packfile(loose, n).ref
            ELSE b.packfile[n]]]

\* packed_loadloose over the files of seen: _dirent_loose_load of each
LoadLoose(b, loose, seen) ==
    [b EXCEPT !.packfile =
        [n \in (DOMAIN b.packfile) \cup seen |->
            IF n \in seen THEN loose_lookup_to_packfile(loose, n).ref
            ELSE b.packfile[n]]]

\* refdb_fs_backend__compress once packed_load has returned ld
compress_loaded(ld, loose, pf, seen, fault) ==
    IF ld.rc < 0 THEN Result(-1, "corrupt-packed", NoRef, FALSE, ld.b, loose, pf)
    ELSE IF LoadableLoose(loose) # DOMAIN loose
    THEN Result(-1, "corrupt-loose", NoRef, FALSE,
                LoadLoose(ld.b, loose, seen), loose, pf)
    ELSE PackedWritten(packed_write(LoadLoose(ld.b, loose, seen), loose, pf, fault))

\* refdb_fs_backend__compress.  The directory walk stops at the first file
\* that does not parse; seen are the files it loaded before that one.
DoCompress(b, loose, pf, seen, fault) ==
    compress_loaded(packed_load(b, pf), loose, pf, seen, fault)

\* the files the walk of compress may have loaded
SeenSets(loose) ==
    IF LoadableLoose(loose) = DOMAIN loose THEN {DOMAIN loose}
    ELSE SUBSET LoadableLoose(loose)

\* the disk when packed_write stops for good after the commit of the buffer
\* of w and k unlinks: [loose, pf]
StoppedAfterCommit(w, loose, pf, k) ==
    [loose |-> RemoveLoose(loose, w.map, k), pf |-> CommitPacked(pf, w.buf)]

\* the same for the packed_write of compress on the cache b1 with the loose
\* files loaded
PackedWriteStoppedAt(b1, loose, pf, k) ==
    StoppedAfterCommit(
        WriteLoop(b1.packfile, SortNames(DOMAIN b1.packfile), 1,
                  GIT_PACKEDREFS_HEADER \o <<10>>, "none"),
        loose, pf, k)

\* the disk when compress stops for good after the commit of packed-refs
\* and k unlinks: [loose, pf]
CompressStoppedAt(b, loose, pf, k) ==
    PackedWriteStoppedAt(LoadLoose(packed_load(b, pf).b, loose, DOMAIN loose),
                         loose, pf, k)

(***************************************************************************)
(* The iterator.  A refdb_fs_iter is [open, glob, loose, loose_pos,        *)
(* packed_pos]; glob = <<>> stands for glob == NULL.  The walk of the hash *)
(* table is modelled as a walk of its keys in strcmp order: packed_pos     *)
(* counts the entries already visited.                                     *)
(***************************************************************************)
GIT_ITEROVER == -31

\* ".lock"
Str_lock == <<46, 108, 111, 99, 107>>

\* git__suffixcmp(str, suffix) == 0
HasSuffix(str, suffix) ==
    /\ Len(str) >= Len(suffix)
    /\ \A i \in 1..Len(suffix) : str[Len(str) - Len(suffix) + i] = suffix[i]

\* p_fnmatch(pat, str, 0) == 0, for patterns of literal characters, '?' and
\* '*' (with flags 0 a '*' matches '/' as well)
RECURSIVE FnMatch(_, _)
FnMatch(pat, str) ==
    IF pat = <<>> THEN str = <<>>
    ELSE IF pat[1] = 42
    THEN FnMatch(Tail(pat), str) \/ (str # <<>> /\ FnMatch(pat, Tail(str)))
    ELSE IF str = <<>> THEN FALSE
    ELSE IF pat[1] = 63 THEN FnMatch(Tail(pat), Tail(str))
    ELSE pat[1] = str[1] /\ FnMatch(Tail(pat), Tail(str))

\* iter->glob && p_fnmatch(iter->glob, name, 0) != 0
GlobRejects(glob, name) == glob # <<>> /\ ~FnMatch(glob, name)

\* no iterator is allocated
NoIter ==
    [open |-> FALSE, glob |-> <<>>, loose |-> <<>>, loose_pos |-> 0,
     packed_pos |-> 0]

\* iter_load_loose_paths, the names the directory walk collects
CollectedLoose(loose, glob) ==
    {n \in DOMAIN loose : ~HasSuffix(n, Str_lock) /\ ~GlobRejects(glob, n)}

\* iter_load_loose_paths: [b, list]; the packed entry of every collected
\* name gets SHADOWED
iter_load_loose_paths(b, loose, glob) ==
    [b |-> [b EXCEPT !.packfile =
               [n \in DOMAIN b.packfile |->
                   IF n \in CollectedLoose(loose, glob)
                   THEN [b.packfile[n] EXCEPT !.flags = @ \cup {PACKREF_SHADOWED}]
                   ELSE b.packfile[n]]],
     list |-> SortNames(CollectedLoose(loose, glob))]

\* refdb_fs_backend__iterator once packed_load has returned ld: [rc, b, it]
iterator_loaded(ld, loose, glob) ==
    IF ld.rc < 0 THEN [rc |-> -1, b |-> ld.b, it |-> NoIter]
    ELSE [rc |-> 0,
          b |-> iter_load_loose_paths(ld.b, loose, glob).b,
          it |-> [open |-> TRUE, glob |-> glob,
                  loose |-> iter_load_loose_paths(ld.b, loose, glob).list,
                  loose_pos |-> 0, packed_pos |-> 0]]

\* refdb_fs_backend__iterator: [rc, b, it]
refdb_fs_backend__iterator(b, loose, pf, glob) ==
    iterator_loaded(packed_load(b, pf), loose, glob)

\* refdb_fs_backend__iterator_next: [rc, ref, it]
RECURSIVE refdb_fs_backend__iterator_next(_, _, _)
refdb_fs_backend__iterator_next(it, b, loose) ==
    IF it.loose_pos < Len(it.loose)
    THEN LET ll == loose_lookup(loose, it.loose[it.loose_pos + 1])
         IN  IF ll.rc = 0
             THEN [rc |-> 0, ref |-> ll.ref,
                   it |-> [it EXCEPT !.loose_pos = @ + 1]]
             ELSE refdb_fs_backend__iterator_next(
                      [it EXCEPT !.loose_pos = @ + 1], b, loose)
    ELSE IF it.packed_pos < Cardinality(DOMAIN b.packfile)
    THEN LET ref == b.packfile[SortNames(DOMAIN b.packfile)[it.packed_pos + 1]]
         IN  IF PACKREF_SHADOWED \in ref.flags \/ GlobRejects(it.glob, ref.name)
             THEN refdb_fs_backend__iterator_next(
                      [it EXCEPT !.packed_pos = @ + 1], b, loose)
             ELSE [rc |-> 0,
                   ref |-> git_reference__alloc(ref.name, ref.oid, ref.peel),
                   it |-> [it EXCEPT !.packed_pos = @ + 1]]
    ELSE [rc |-> GIT_ITEROVER, ref |-> NoRef, it |-> it]

\* refdb_fs_backend__iterator_next_name: [rc, ref, it]; ref carries the name
RECURSIVE refdb_fs_backend__iterator_next_name(_, _)
refdb_fs_backend__iterator_next_name(it, b) ==
    IF it.loose_pos < Len(it.loose)
    THEN IF MapExists(b.packfile, it.loose[it.loose_pos + 1])
         THEN refdb_fs_backend__iterator_next_name(
                  [it EXCEPT !.loose_pos = @ + 1], b)
         ELSE [rc |-> 0,
               ref |-> [NoRef EXCEPT !.name = it.loose[it.loose_pos + 1]],
               it |-> [it EXCEPT !.loose_pos = @ + 1]]
    ELSE IF it.packed_pos < Cardinality(DOMAIN b.packfile)
    THEN IF GlobRejects(it.glob, SortNames(DOMAIN b.packfile)[it.packed_pos + 1])
         THEN refdb_fs_backend__iterator_next_name(
                  [it EXCEPT !.packed_pos = @ + 1], b)
         ELSE [rc |-> 0,
               ref |-> [NoRef EXCEPT
                           !.name = SortNames(DOMAIN b.packfile)[it.packed_pos + 1]],
               it |-> [it EXCEPT !.packed_pos = @ + 1]]
    ELSE [rc |-> GIT_ITEROVER, ref |-> NoRef, it |-> it]

(***************************************************************************)
(* The state machine: one backend instance on one repository.              *)
(***************************************************************************)
VARIABLES
    backend,      \* the refdb_fs_backend: cache, packfile_time, peeling_mode
    loose,        \* the loose reference files under <root>/refs/
    packed_file,  \* the file <root>/packed-refs
    last,         \* the operation that has just returned: arguments and result
    written,      \* per name, the reference of the last successful write on
                  \* this instance, NoRef once write, delete or rename was
                  \* called on the name again
    iter,         \* the refdb_fs_iter the caller holds, NoIter when none
    walk,         \* what the caller has got from iter: which next function
                  \* it calls, the references emitted, ITEROVER signalled
    failed_mtime, \* the mtime of the packed-refs file the last failed
                  \* packed_load of this instance has read, 0 when none failed
    conc          \* an operation of this instance in progress, step by
                  \* step, and another process with a cache of its own:
                  \* where each is, what the other did and what it has seen

vars == <<backend, loose, packed_file, last, written, iter, walk, failed_mtime,
         conc>>

Faults == {"none", "odb", "commit"}

\* the references write is called with: every name with every oid, and
\* refs/a as a symbolic reference to refs/ab
WriteRefs ==
    {git_reference__alloc(N_a, o, ZeroOid) : o \in Oids}
    \cup {git_reference__alloc(N_a_b, 1, ZeroOid),
          git_reference__alloc(N_ab, MaxOid, ZeroOid)}
    \cup {git_reference__alloc_symbolic(N_a, N_ab)}

Call(op, name, arg, force, r) ==
    [op |-> op, name |-> name, arg |-> arg, force |-> force,
     rc |-> r.rc, msg |-> r.msg, ref |-> r.ref, exists |-> r.exists]

\* the caller is between two calls
Idle ==
    [op |-> "none", name |-> <<>>, arg |-> NoRef, force |-> FALSE,
     rc |-> 0, msg |-> "", ref |-> NoRef, exists |-> FALSE]

\* failed_mtime after a call that has returned msg
FailedMtime(msg) ==
    IF msg = "corrupt-packed" THEN packed_file.mtime ELSE failed_mtime

\* one call of the backend: the whole operation runs, and last holds what
\* it returned until the caller takes it
Apply(op, name, arg, force, r, w) ==
    /\ last = Idle
    /\ r.pf.mtime <= MaxMtime
    /\ backend' = r.b
    /\ loose' = r.loose
    /\ packed_file' = r.pf
    /\ last' = Call(op, name, arg, force, r)
    /\ written' = w
    /\ failed_mtime' = FailedMtime(r.msg)
    /\ UNCHANGED <<iter, walk, conc>>

\* nothing was asked of an iterator
NoWalk == [names |-> FALSE, out |-> <<>>, over |-> FALSE]

\* no lock file <path>.lock is there
NoLock == [exists |-> FALSE, buf |-> <<>>]

\* the other process has not mutated the repository
NoMut == [op |-> "none", ref |-> NoRef, at |-> "idle"]

\* no operation is in progress step by step and no other process runs
NoConc ==
    [wpc |-> "idle", wref |-> NoRef, wrc |-> 0, lock |-> NoLock, v1 |-> NoRef,
     reader |-> NewBackend, rpc |-> "idle", obs |-> <<>>,
     cpc |-> "idle", crc |-> 0, mut |-> NoMut, before |-> EmptyMap]

\* written with the names of S forgotten
Forget(S) == [n \in Names |-> IF n \in S THEN NoRef ELSE written[n]]

\* a loose file that does not parse: 40 hex characters followed by 'x'
CorruptLoose == <<HexTok(1), 120>>

\* a packed-refs file as git pack-refs writes it:
\* "# pack-refs with: peeled fully-peeled \n", refs/a, and refs/ab with a peel
GitPackedBuf ==
    traits_header \o Str_peeled \o <<32>> \o Str_fully_peeled \o <<32, 10>>
    \o <<HexTok(1), 32>> \o N_a \o <<10>>
    \o <<HexTok(2), 32>> \o N_ab \o <<10, 94, HexTok(1), 10>>

NoPackedFile == [exists |-> FALSE, mtime |-> 0, buf |-> <<>>]

InitLoose == {EmptyMap, [n \in {N_ab} |-> CorruptLoose]}
InitPacked == {NoPackedFile, [exists |-> TRUE, mtime |-> 1, buf |-> GitPackedBuf]}

Init ==
    /\ backend = NewBackend
    /\ loose \in InitLoose
    /\ packed_file \in InitPacked
    /\ last = Idle
    /\ written = [n \in Names |-> NoRef]
    /\ iter = NoIter
    /\ walk = NoWalk
    /\ failed_mtime = 0
    /\ conc = NoConc

Lookup(n) ==
    Apply("lookup", n, NoRef, FALSE, DoLookup(backend, loose, packed_file, n),
          written)

Exists(n) ==
    Apply("exists", n, NoRef, FALSE, DoExists(backend, loose, packed_file, n),
          written)

Write(ref, force) ==
    LET r == DoWrite(backend, loose, packed_file, ref, force)
    IN  Apply("write", ref.name, ref, force, r,
              [written EXCEPT ![ref.name] = IF r.rc = 0 THEN ref ELSE NoRef])

Delete(n, fault) ==
    Apply("delete", n, NoRef, FALSE,
          DoDelete(backend, loose, packed_file, n, fault), Forget({n}))

Rename(old, new, force, fault) ==
    Apply("rename", old, [NoRef EXCEPT !.name = new], force,
          DoRename(backend, loose, packed_file, old, new, force, fault),
          Forget({old, new}))

Compress(seen, fault) ==
    Apply("compress", <<>>, NoRef, FALSE,
          DoCompress(backend, loose, packed_file, seen, fault), written)

\* the process dies inside compress after the commit and k unlinks; the
\* repository is opened again
CompressCrash(k) ==
    LET d == CompressStoppedAt(backend, loose, packed_file, k)
    IN  /\ packed_load(backend, packed_file).rc = 0
        /\ LoadableLoose(loose) = DOMAIN loose
        /\ Apply("compress-crash", <<>>, NoRef, FALSE,
                 Result(-1, "crash", NoRef, FALSE, NewBackend, d.loose, d.pf),
                 Forget(Names))

\* the caller takes the result of the call
Return ==
    /\ last # Idle
    /\ last' = Idle
    /\ UNCHANGED <<backend, loose, packed_file, written, iter, walk, failed_mtime, conc>>

Next ==
    \/ \E n \in Names : Lookup(n)
    \/ \E n \in Names : Exists(n)
    \/ \E ref \in WriteRefs, force \in BOOLEAN : Write(ref, force)
    \/ \E n \in Names, fault \in Faults : Delete(n, fault)
    \/ \E old \in Names, new \in Names, force \in BOOLEAN :
           old # new /\ Rename(old, new, force, "none")
    \/ \E seen \in SeenSets(loose), fault \in Faults : Compress(seen, fault)
    \/ \E k \in 0..Cardinality(DOMAIN loose) : CompressCrash(k)
    \/ Return

Spec == Init /\ [][Next]_vars

(***************************************************************************)
(* The iterator calls of the same instance.  While the caller holds an     *)
(* iterator nothing else is called: the repository is not mutated during   *)
(* the iteration.                                                          *)
(***************************************************************************)
\* the globs iterators are created with: NULL, "refs/a/*" and "*b"
Globs == {<<>>, N_a \o <<47, 42>>, <<42, 98>>}

\* refdb_fs_backend__iterator; names tells which next function the caller
\* is going to use
Iterator(glob, names) ==
    LET r == refdb_fs_backend__iterator(backend, loose, packed_file, glob)
    IN  /\ last = Idle
        /\ ~iter.open
        /\ backend' = r.b
        /\ iter' = r.it
        /\ walk' = [names |-> names, out |-> <<>>, over |-> FALSE]
        /\ last' = [Idle EXCEPT !.op = "iterator", !.name = glob, !.rc = r.rc,
                                !.msg = IF r.rc < 0 THEN "corrupt-packed" ELSE ""]
        /\ failed_mtime' = IF r.rc < 0 THEN packed_file.mtime ELSE failed_mtime
        /\ UNCHANGED <<loose, packed_file, written, conc>>

\* what the caller keeps of a call of a next function that returned r
Walked(r) ==
    [walk EXCEPT !.out = IF r.rc = 0 THEN Append(@, r.ref) ELSE @,
                 !.over = (r.rc = GIT_ITEROVER)]

\* refdb_fs_backend__iterator_next
IteratorNext ==
    LET r == refdb_fs_backend__iterator_next(iter, backend, loose)
    IN  /\ last = Idle
        /\ iter.open /\ ~walk.names /\ ~walk.over
        /\ iter' = r.it
        /\ walk' = Walked(r)
        /\ last' = [Idle EXCEPT !.op = "next", !.rc = r.rc, !.ref = r.ref]
        /\ UNCHANGED <<backend, loose, packed_file, written, failed_mtime, conc>>

\* refdb_fs_backend__iterator_next_name
IteratorNextName ==
    LET r == refdb_fs_backend__iterator_next_name(iter, backend)
    IN  /\ last = Idle
        /\ iter.open /\ walk.names /\ ~walk.over
        /\ iter' = r.it
        /\ walk' = Walked(r)
        /\ last' = [Idle EXCEPT !.op = "next_name", !.rc = r.rc, !.ref = r.ref]
        /\ UNCHANGED <<backend, loose, packed_file, written, failed_mtime, conc>>

\* refdb_fs_backend__iterator_free
IteratorFree ==
    /\ last = Idle
    /\ iter.open
    /\ iter' = NoIter
    /\ walk' = NoWalk
    /\ UNCHANGED <<backend, loose, packed_file, last, written, failed_mtime, conc>>

NextIter ==
    \/ ~iter.open /\ \E ref \in WriteRefs : Write(ref, TRUE)
    \/ ~iter.open /\ \E n \in Names : Delete(n, "none")
    \/ ~iter.open /\ \E seen \in SeenSets(loose) : Compress(seen, "none")
    \/ \E glob \in Globs, names \in BOOLEAN : Iterator(glob, names)
    \/ IteratorNext
    \/ IteratorNextName
    \/ IteratorFree
    \/ Return

SpecIter == Init /\ [][NextIter]_vars

(***************************************************************************)
(* The same instance while another process replaces the packed-refs file.  *)
(***************************************************************************)
\* "bogus\n"
BogusBuf == <<98, 111, 103, 117, 115, 10>>

\* an entry whose peel line holds no oid: "<oid 1> refs/a\n^x\n"
BadPeelBuf == <<HexTok(1), 32>> \o N_a \o <<10, 94, 120, 10>>

\* a file without header: "<oid 2> refs/a\n<oid 1> refs/a/b\n"
PlainPackedBuf ==
    <<HexTok(2), 32>> \o N_a \o <<10>> \o <<HexTok(1), 32>> \o N_a_b \o <<10>>

PackedBufs == {BogusBuf, BadPeelBuf, GitPackedBuf, PlainPackedBuf}

InitRefresh ==
    /\ backend = NewBackend
    /\ loose \in InitLoose
    /\ packed_file \in
           {NoPackedFile}
           \cup {[exists |-> TRUE, mtime |-> 1, buf |-> buf] : buf \in PackedBufs}
    /\ last = Idle
    /\ written = [n \in Names |-> NoRef]
    /\ iter = NoIter
    /\ walk = NoWalk
    /\ failed_mtime = 0
    /\ conc = NoConc

\* another process renames a new packed-refs file into place
ReplacePacked(buf) ==
    /\ last = Idle
    /\ packed_file.mtime < MaxMtime
    /\ packed_file' = CommitPacked(packed_file, buf)
    /\ UNCHANGED <<backend, loose, last, written, iter, walk, failed_mtime, conc>>

NextRefresh ==
    \/ ~iter.open /\ \E n \in Names : Lookup(n)
    \/ ~iter.open /\ \E n \in Names : Exists(n)
    \/ \E glob \in Globs, names \in BOOLEAN : Iterator(glob, names)
    \/ IteratorFree
    \/ ~iter.open /\ \E buf \in PackedBufs : ReplacePacked(buf)
    \/ ~iter.open /\ \E ref \in WriteRefs : Write(ref, TRUE)
    \/ ~iter.open /\ \E seen \in SeenSets(loose) : Compress(seen, "none")
    \/ Return

SpecRefresh == InitRefresh /\ [][NextRefresh]_vars


(***************************************************************************)
(* Vocabulary of the properties.                                           *)
(***************************************************************************)
\* a lookup of n by an instance opened on the files now
FreshLookup(l, pf, n) == DoLookup(NewBackend, l, pf, n)

\* an exists of n by an instance opened on the files now
FreshExists(l, pf, n) == DoExists(NewBackend, l, pf, n)

\* two references have the same variant and the same target
SameTarget(r1, r2) ==
    r1.type = r2.type /\ r1.oid = r2.oid /\ r1.symbolic = r2.symbolic

\* two lookup results agree: the same code and the same target
SameLookup(k1, k2) == k1.rc = k2.rc /\ SameTarget(k1.ref, k2.ref)

\* the packed map this instance works with once it has refreshed its cache
PackedMap(b, pf) == packed_load(b, pf).b.packfile

\* the reference values a loose file of name n can hold
RefValues(n) ==
    {git_reference__alloc(n, o, ZeroOid) : o \in Oids}
    \cup {git_reference__alloc_symbolic(n, t) : t \in Names}

\* E and N collide: one is a proper prefix of the other, ending at a '/'
Collide(E, N) == IsPathPrefix(E, N) \/ IsPathPrefix(N, E)

(***************************************************************************)
(* C1: lookup(N) returns the value of a valid loose file of N without      *)
(* touching the packed map, even when a packed entry of N holds another    *)
(* oid; with a loose file that does not parse it fails with an error that  *)
(* is not NotFound, the packed map again untouched; without a loose file   *)
(* it returns a direct reference with the oid of the packed entry, and its *)
(* peel when the entry has HAS_PEEL; with neither it returns NotFound.     *)
(***************************************************************************)
C1_LookupPrecedence ==
    [][last'.op = "lookup" =>
        LET n == last'.name
            vals == {R \in RefValues(n) :
                        n \in DOMAIN loose /\ loose[n] = LooseContent(R)}
        IN  IF n \in DOMAIN loose
            THEN /\ backend' = backend
                 /\ IF vals # {} THEN last'.rc = 0 /\ last'.ref \in vals
                    ELSE last'.rc < 0 /\ last'.rc # GIT_ENOTFOUND
            ELSE IF n \in DOMAIN backend'.packfile
            THEN LET e == backend'.packfile[n]
                 IN  /\ last'.rc = 0
                     /\ last'.ref =
                            git_reference__alloc(n, e.oid,
                                IF PACKREF_HAS_PEEL \in e.flags THEN e.peel
                                ELSE ZeroOid)
            ELSE last'.rc = GIT_ENOTFOUND]_vars

\* a lookup has returned the loose value of a name whose packed entry holds
\* another oid
C1_Witness ==
    /\ last.op = "lookup" /\ last.rc = 0
    /\ last.name \in DOMAIN loose
    /\ last.name \in DOMAIN backend.packfile
    /\ backend.packfile[last.name].oid # last.ref.oid

(***************************************************************************)
(* C2: once write(R) has succeeded on this instance, every later lookup of *)
(* R.name on it returns R's variant and target, whatever lookups, exists,  *)
(* compress, and writes, deletes and renames of other names came between,  *)
(* as long as no write, delete or rename was called on R.name itself.      *)
(***************************************************************************)
C2_WriteStays ==
    last.op = "lookup" /\ written[last.name] # NoRef
        => last.rc = 0 /\ SameTarget(last.ref, written[last.name])

\* a lookup has returned the written reference of a name that compress has
\* folded into the packed file since
C2_Witness ==
    /\ last.op = "lookup" /\ last.rc = 0
    /\ written[last.name] # NoRef
    /\ SameTarget(last.ref, written[last.name])
    /\ last.name \notin DOMAIN loose

(***************************************************************************)
(* C3: exists(N) answers true exactly when N is a regular loose file or a  *)
(* key of the packed map, so also for a reference that is only in the      *)
(* packed file, and exactly when lookup(N) does not return NotFound.       *)
(***************************************************************************)
C3_ExistsIff ==
    last.op = "exists" /\ last.rc = 0 =>
        /\ last.exists <=>
               \/ last.name \in DOMAIN loose
               \/ last.name \in DOMAIN backend.packfile
        /\ last.exists <=>
               DoLookup(backend, loose, packed_file, last.name).rc
                   # GIT_ENOTFOUND

\* exists has answered true for a loose file
C3_Witness == last.op = "exists" /\ last.rc = 0 /\ last.exists

(***************************************************************************)
(* C4: when write(R) succeeds, the lookup of R.name that follows at once   *)
(* succeeds and returns R's variant with R's target: the direct oid, or    *)
(* the symbolic target as written.                                         *)
(***************************************************************************)
C4_WriteThenLookup ==
    last.op = "write" /\ last.rc = 0
        => LET lk == DoLookup(backend, loose, packed_file, last.name)
           IN  lk.rc = 0 /\ SameTarget(lk.ref, last.arg)

\* a write has succeeded over a packed entry of the name that holds another
\* oid
C4_Witness ==
    /\ last.op = "write" /\ last.rc = 0
    /\ last.name \in DOMAIN backend.packfile
    /\ backend.packfile[last.name].oid # last.arg.oid

(***************************************************************************)
(* C5: when compress succeeds, every name that lookup resolved before it   *)
(* still resolves after it, and to the same target oid; where loose file   *)
(* and packed entry disagreed this is the loose value.                     *)
(***************************************************************************)
C5_CompressKeepsLookups ==
    [][last'.op = "compress" /\ last'.rc = 0 =>
        \A n \in Names :
            LET before == DoLookup(backend, loose, packed_file, n)
                after == DoLookup(backend', loose', packed_file', n)
            IN  before.rc = 0 =>
                    after.rc = 0 /\ after.ref.oid = before.ref.oid]_vars

\* compress has succeeded and has folded a loose file into the packed file
C5_Witness ==
    /\ last.op = "compress" /\ last.rc = 0
    /\ \E n \in DOMAIN backend.packfile :
           /\ PACKREF_WAS_LOOSE \in backend.packfile[n].flags
           /\ n \notin DOMAIN loose
           /\ n \in DOMAIN ParsePacked(packed_file.buf).map

(***************************************************************************)
(* C6: at every point compress can be stopped at, a name that another      *)
(* instance resolved before compress began still resolves for it, to the   *)
(* same target: the packed file is committed before any loose file is      *)
(* unlinked.                                                               *)
(***************************************************************************)
C6_CompressCrashSafe ==
    [][last'.op = "compress-crash" =>
        \A n \in Names :
            LET before == FreshLookup(loose, packed_file, n)
                after == FreshLookup(loose', packed_file', n)
            IN  before.rc = 0 =>
                    after.rc = 0 /\ SameTarget(after.ref, before.ref)]_vars

\* compress was stopped after the commit, a loose file still to unlink
C6_Witness ==
    /\ last.op = "compress-crash"
    /\ \E n \in DOMAIN loose : n \in DOMAIN ParsePacked(packed_file.buf).map

(***************************************************************************)
(* C7: delete(N) returns NotFound exactly when N has neither a loose file  *)
(* nor a packed entry, and then changes nothing on disk or in the cache;   *)
(* when it succeeds the loose file is gone and the packed entry is gone    *)
(* from the cache and from the packed file, so that exists(N) is false and *)
(* lookup(N) is NotFound on this instance and on a freshly opened one.     *)
(***************************************************************************)
C7_Delete ==
    [][last'.op = "delete" =>
        LET n == last'.name
            present == \/ n \in DOMAIN loose
                       \/ n \in DOMAIN PackedMap(backend, packed_file)
        IN  /\ last'.rc = GIT_ENOTFOUND <=> ~present
            /\ last'.rc = GIT_ENOTFOUND =>
                   /\ loose' = loose
                   /\ packed_file' = packed_file
                   /\ backend' = packed_load(backend, packed_file).b
            /\ last'.rc = 0 =>
                   /\ n \notin DOMAIN loose'
                   /\ n \notin DOMAIN backend'.packfile
                   /\ n \notin DOMAIN ParsePacked(packed_file'.buf).map
                   /\ ~DoExists(backend', loose', packed_file', n).exists
                   /\ DoLookup(backend', loose', packed_file', n).rc
                          = GIT_ENOTFOUND
                   /\ ~FreshExists(loose', packed_file', n).exists
                   /\ FreshLookup(loose', packed_file', n).rc = GIT_ENOTFOUND
      ]_vars

\* a delete has succeeded and has rewritten the packed file
C7_Witness ==
    /\ last.op = "delete" /\ last.rc = 0
    /\ packed_file.exists /\ backend.packfile_time = packed_file.mtime
    /\ packed_file.mtime > 1

(***************************************************************************)
(* C8: when delete(N) returns an error, the files are as if delete had not *)
(* been called: lookup(N) from this instance and from any other returns    *)
(* what it returned before the call, also when N had a loose file and a    *)
(* packed entry of different oids.                                         *)
(***************************************************************************)
C8_DeleteErrorKeepsState ==
    [][last'.op = "delete" /\ last'.rc < 0 =>
        LET N == last'.name
        IN  /\ loose' = loose
            /\ packed_file' = packed_file
            /\ SameLookup(DoLookup(backend', loose', packed_file', N),
                          DoLookup(backend, loose, packed_file, N))
            /\ SameLookup(FreshLookup(loose', packed_file', N),
                          FreshLookup(loose, packed_file, N))]_vars

\* a delete has returned an error that is not NotFound
C8_Witness ==
    last.op = "delete" /\ last.rc < 0 /\ last.rc # GIT_ENOTFOUND

(***************************************************************************)
(* C9: write(R) with force = false on a name that exists, as a loose file, *)
(* as a packed entry or as both, returns AlreadyExists and changes neither *)
(* the loose file, nor the packed file, nor what lookup(R.name) returns.   *)
(***************************************************************************)
C9_WriteNoForce ==
    [][last'.op = "write" /\ ~last'.force =>
        LET N == last'.name
            present == \/ N \in DOMAIN loose
                       \/ N \in DOMAIN PackedMap(backend, packed_file)
        IN  present =>
                /\ last'.rc = GIT_EEXISTS
                /\ loose' = loose
                /\ packed_file' = packed_file
                /\ SameLookup(DoLookup(backend', loose', packed_file', N),
                              DoLookup(backend, loose, packed_file, N))]_vars

\* a write without force has been refused on a name that has a loose file
C9_Witness ==
    /\ last.op = "write" /\ ~last.force /\ last.rc = GIT_EEXISTS
    /\ last.name \in DOMAIN loose

(***************************************************************************)
(* C10: for every reference E that exists, loose or packed, and every N    *)
(* such that one of E and N is a proper prefix of the other ending at a    *)
(* '/', write(N) fails with the path-collision error and creates or        *)
(* changes no reference; a name that is a prefix of the other only as      *)
(* text (refs/a and refs/ab) is no collision.                              *)
(***************************************************************************)
C10_PathCollision ==
    [][last'.op = "write" =>
        LET N == last'.name
            existing == (DOMAIN loose) \cup DOMAIN PackedMap(backend, packed_file)
            collision == \E E \in existing : Collide(E, N)
        IN  /\ collision /\ (last'.force \/ N \notin existing) =>
                /\ last'.rc < 0
                /\ last'.msg = "collides"
                /\ loose' = loose
                /\ packed_file' = packed_file
            /\ last'.msg = "collides" => collision]_vars

\* a write has been refused for a collision with a packed entry
C10_Witness ==
    /\ last.op = "write" /\ last.msg = "collides"
    /\ \E E \in DOMAIN backend.packfile : Collide(E, last.name)

(***************************************************************************)
(* Vocabulary of the properties: the names present on disk.                *)
(***************************************************************************)
\* the names of the entries of the packed-refs file
PackedNames(pf) == IF pf.exists THEN DOMAIN ParsePacked(pf.buf).map ELSE {}

\* the present names: loose files plus entries of the packed-refs file
PresentNames(l, pf) == (DOMAIN l) \cup PackedNames(pf)

(***************************************************************************)
(* The same instance on a repository that starts empty.                    *)
(***************************************************************************)
InitEmpty ==
    /\ Init
    /\ loose = EmptyMap
    /\ packed_file = NoPackedFile

SpecEmpty == InitEmpty /\ [][Next]_vars

(***************************************************************************)
(* C11: in every state reached by write, delete, rename and compress on    *)
(* one instance the present names (loose files plus packed entries) are    *)
(* prefix-free: no present name is a strict path-prefix of another one.    *)
(***************************************************************************)
C11_PrefixFree ==
    \A A \in PresentNames(loose, packed_file) :
        \A B \in PresentNames(loose, packed_file) : ~IsPathPrefix(A, B)

\* a write or a rename has just succeeded and left two present names
C11_Witness ==
    /\ last.op \in {"write", "rename"}
    /\ last.rc = 0
    /\ Cardinality(PresentNames(loose, packed_file)) >= 2

(***************************************************************************)
(* C12: when rename(old, new, force) succeeds, exists(old) is false and    *)
(* lookup(new) returns what lookup(old) returned before the call under the *)
(* new name: the same variant, the same target and the same peel, whether  *)
(* old was loose, packed without a peel or packed with a peel.             *)
(***************************************************************************)
C12_RenameKeepsValue ==
    [][last'.op = "rename" /\ last'.rc = 0 =>
        LET before == DoLookup(backend, loose, packed_file, last'.name)
            after == DoLookup(backend', loose', packed_file', last'.arg.name)
        IN  /\ ~DoExists(backend', loose', packed_file', last'.name).exists
            /\ after.rc = 0
            /\ SameTarget(after.ref, before.ref)
            /\ after.ref.peel = before.ref.peel]_vars

\* a rename of a reference that was packed with a peel has succeeded
C12_Witness ==
    /\ last.op = "rename"
    /\ last.rc = 0
    /\ last.ref.type = "oid"
    /\ last.ref.peel # ZeroOid

(***************************************************************************)
(* C13: when rename(old, new, force) returns an error (old absent, new     *)
(* exists and not force, new collides with another reference, or the write *)
(* of new fails), the repository is as if rename had not been called:      *)
(* lookup(old) returns what it returned before and no present name has     *)
(* gone.                                                                   *)
(***************************************************************************)
C13_RenameErrorKeepsState ==
    [][last'.op = "rename" /\ last'.rc < 0 =>
        /\ SameLookup(DoLookup(backend, loose, packed_file, last'.name),
                      DoLookup(backend', loose', packed_file', last'.name))
        /\ PresentNames(loose, packed_file)
               \subseteq PresentNames(loose', packed_file')]_vars

\* a rename of a reference that lookup resolves has returned an error
C13_Witness ==
    /\ last.op = "rename"
    /\ last.rc < 0
    /\ last.rc # GIT_ENOTFOUND
    /\ last.rc # GIT_EEXISTS

(***************************************************************************)
(* Vocabulary of the properties: iterations.                               *)
(***************************************************************************)
\* how often the walk has emitted name n
TimesEmitted(n) == Cardinality({i \in 1..Len(walk.out) : walk.out[i].name = n})

\* the names the walk has emitted
EmittedNames == {walk.out[i].name : i \in 1..Len(walk.out)}

\* the loose file of n parses
Parseable(l, n) == loose_lookup(l, n).rc = 0

(***************************************************************************)
(* C14: with the repository unchanged during the iteration, the value      *)
(* iterator created with glob g has emitted, when it signals IterOver,     *)
(* exactly one reference for every name that matches g and is present as a *)
(* parseable loose file or as a packed entry, and nothing else; a name     *)
(* present both loose and packed is emitted with the loose value.          *)
(***************************************************************************)
C14_ValueIterator ==
    iter.open /\ ~walk.names /\ walk.over =>
        LET due == {n \in Names :
                       /\ ~GlobRejects(iter.glob, n)
                       /\ Parseable(loose, n) \/ n \in DOMAIN backend.packfile}
        IN  /\ \A n \in due : TimesEmitted(n) = 1
            /\ EmittedNames \subseteq due
            /\ \A i \in 1..Len(walk.out) :
                   LET n == walk.out[i].name
                   IN  IF n \in DOMAIN loose
                       THEN walk.out[i] = loose_lookup(loose, n).ref
                       ELSE walk.out[i] =
                                git_reference__alloc(n, backend.packfile[n].oid,
                                                     backend.packfile[n].peel)

\* a value iteration is over on a repository with a name that is both a
\* loose file and a packed entry
C14_Witness ==
    /\ iter.open /\ ~walk.names /\ walk.over
    /\ \E n \in DOMAIN loose :
           /\ Parseable(loose, n)
           /\ n \in DOMAIN backend.packfile
           /\ ~GlobRejects(iter.glob, n)

\* the references refdb_fs_backend__iterator_next returns from it on, until
\* it signals ITEROVER
RECURSIVE Drain(_, _, _, _)
Drain(it, b, l, out) ==
    LET r == refdb_fs_backend__iterator_next(it, b, l)
    IN  IF r.rc # 0 THEN out ELSE Drain(r.it, b, l, Append(out, r.ref))

\* the names of the references a value iterator created now with glob emits
ValueIteratorNames(c, l) ==
    {Drain(c.it, c.b, l, <<>>)[i].name :
        i \in 1..Len(Drain(c.it, c.b, l, <<>>))}

(***************************************************************************)
(* C15: with the repository unchanged during the iteration, the name-only  *)
(* iterator created with glob g has emitted, when it signals IterOver,     *)
(* each name of (collected loose names matching g) \cup (packed names      *)
(* matching g) exactly once and no other name; and the names it has        *)
(* emitted are the names of the references the value iterator emits for    *)
(* the same glob.                                                          *)
(***************************************************************************)
C15_NameIterator ==
    iter.open /\ walk.names /\ walk.over =>
        LET due == CollectedLoose(loose, iter.glob)
                   \cup {n \in DOMAIN backend.packfile : ~GlobRejects(iter.glob, n)}
        IN  /\ \A n \in due : TimesEmitted(n) = 1
            /\ EmittedNames \subseteq due
            /\ EmittedNames =
                   ValueIteratorNames(
                       refdb_fs_backend__iterator(backend, loose, packed_file,
                                                  iter.glob), loose)

\* a name iteration is over that has emitted a loose name and a packed name
C15_Witness ==
    /\ iter.open /\ walk.names /\ walk.over
    /\ \E n \in EmittedNames : n \in DOMAIN loose /\ n \notin DOMAIN backend.packfile
    /\ \E n \in EmittedNames : n \in DOMAIN backend.packfile

(***************************************************************************)
(* Vocabulary of the properties: refreshes of the cache.                   *)
(***************************************************************************)
\* the call that has just been made had to consult the packed map: exists,
\* the construction of an iterator, lookup of a name with no loose file
ConsultsPacked ==
    \/ last'.op \in {"exists", "iterator"}
    \/ last'.op = "lookup" /\ last'.name \notin DOMAIN loose

\* the packed-refs file is there and does not parse
CorruptPacked(pf) == pf.exists /\ ~ParsePacked(pf.buf).ok

\* a map without the marks of iterators
Unshadowed(map) ==
    [n \in DOMAIN map |-> [map[n] EXCEPT !.flags = @ \ {PACKREF_SHADOWED}]]

(***************************************************************************)
(* C16: while the packed-refs file on disk is corrupt, every read that has *)
(* to consult the packed map (exists, the construction of an iterator,     *)
(* lookup of a name with no loose file) fails with the corrupt-packed-refs *)
(* error, on the first call and on every later call of the same instance;  *)
(* none of them succeeds with an empty packed view.                        *)
(***************************************************************************)
C16_CorruptPackedFails ==
    [][ConsultsPacked /\ CorruptPacked(packed_file) =>
           last'.rc < 0 /\ last'.msg = "corrupt-packed"]_vars

\* a read has failed on a corrupt packed-refs file
C16_Witness ==
    /\ last.op \in {"exists", "iterator", "lookup"}
    /\ CorruptPacked(packed_file)
    /\ last.msg = "corrupt-packed"

(***************************************************************************)
(* C17: when a packed-refs file that parses is on disk with an mtime other *)
(* than the one the instance has stored (in particular after a refresh     *)
(* that failed on a corrupt file, the file replaced since), the next read  *)
(* of the same instance does not fail on packed-refs, and after it the     *)
(* cached map is the parse of the file on disk, no entry of the previous   *)
(* generation left; a lookup that consults the map answers from the new    *)
(* file.                                                                   *)
(***************************************************************************)
C17_RefreshReplaces ==
    [][ /\ ConsultsPacked \/ last'.op = "write"
        /\ packed_file.exists
        /\ ParsePacked(packed_file.buf).ok
        /\ backend.packfile_time # packed_file.mtime
        =>
        /\ last'.msg # "corrupt-packed"
        /\ backend'.has_map
        /\ Unshadowed(backend'.packfile) = ParsePacked(packed_file.buf).map
        /\ last'.op = "lookup" =>
               IF last'.name \in DOMAIN ParsePacked(packed_file.buf).map
               THEN /\ last'.rc = 0
                    /\ last'.ref =
                           git_reference__alloc(last'.name,
                               ParsePacked(packed_file.buf).map[last'.name].oid,
                               ParsePacked(packed_file.buf).map[last'.name].peel)
               ELSE last'.rc = GIT_ENOTFOUND ]_vars

\* a refresh of this instance has failed on a corrupt file, the file was
\* replaced, and a lookup has answered from the new file
C17_Witness ==
    /\ failed_mtime # 0
    /\ packed_file.mtime # failed_mtime
    /\ backend.packfile_time = packed_file.mtime
    /\ last.op = "lookup"
    /\ last.rc = 0
    /\ last.name \notin DOMAIN loose

(***************************************************************************)
(* Vocabulary of the properties: the entries of the packed-refs file in    *)
(* the order of the file.                                                  *)
(***************************************************************************)
\* the names of the entries of buf from position p on, as packed_load
\* meets them
RECURSIVE EntryNames(_, _)
EntryNames(buf, p) ==
    IF p = 0 \/ p > Len(buf) \/ ~packed_parse_oid(buf, p).ok THEN <<>>
    ELSE IF /\ packed_parse_oid(buf, p).next <= Len(buf)
            /\ buf[packed_parse_oid(buf, p).next] = 94
    THEN <<packed_parse_oid(buf, p).ref.name>>
         \o EntryNames(buf, packed_parse_peel(packed_parse_oid(buf, p).ref, buf,
                                              packed_parse_oid(buf, p).next).next)
    ELSE <<packed_parse_oid(buf, p).ref.name>>
         \o EntryNames(buf, packed_parse_oid(buf, p).next)

\* the names of the entries of the packed-refs file, in file order
PackedEntryNames(pf) ==
    IF pf.exists
    THEN EntryNames(pf.buf, SkipComments(pf.buf, ParseTraits(pf.buf).next))
    ELSE <<>>

(***************************************************************************)
(* C18: after a successful compress() the packed-refs file holds exactly   *)
(* one entry for every name that was present before (loose file or packed  *)
(* entry) and no other, its entries are in strictly ascending order by     *)
(* name, and no loose file is left for a name of the packed map.           *)
(***************************************************************************)
C18_CompressResult ==
    [][last'.op = "compress" /\ last'.rc = 0 =>
        LET names == PackedEntryNames(packed_file')
        IN  /\ {names[i] : i \in 1..Len(names)} = PresentNames(loose, packed_file)
            /\ \A i \in 1..Len(names) : \A j \in 1..Len(names) :
                   i < j => StrLess(names[i], names[j])
            /\ (DOMAIN loose') \cap (DOMAIN backend'.packfile) = {}]_vars

\* a compress has succeeded that packed a loose file next to a packed entry
C18_Witness ==
    /\ last.op = "compress"
    /\ last.rc = 0
    /\ Len(PackedEntryNames(packed_file)) >= 2
    /\ \E n \in DOMAIN backend.packfile : PACKREF_WAS_LOOSE \in backend.packfile[n].flags

(***************************************************************************)
(* Vocabulary of the properties: what the cached map holds for each name.  *)
(***************************************************************************)
\* the names of the cached map of b with the oid and the peel of each
CachedValues(b) ==
    [n \in DOMAIN b.packfile |->
        [oid |-> b.packfile[n].oid,
         peel |-> IF PACKREF_HAS_PEEL \in b.packfile[n].flags
                  THEN b.packfile[n].peel ELSE ZeroOid]]

\* the compress() that follows on the state (b, l, pf) at once
CompressAgain(b, l, pf) == DoCompress(b, l, pf, DOMAIN l, "none")

(***************************************************************************)
(* C19: compress() is idempotent: a second compress() right after a        *)
(* successful one leaves the same content of the packed-refs file, the     *)
(* same (empty) set of loose files and the same cached map (names, oids,   *)
(* peels) as the first one left.                                           *)
(***************************************************************************)
C19_CompressIdempotent ==
    [][last'.op = "compress" /\ last'.rc = 0 =>
        /\ CompressAgain(backend', loose', packed_file').rc = 0
        /\ CompressAgain(backend', loose', packed_file').pf.exists
        /\ CompressAgain(backend', loose', packed_file').pf.buf = packed_file'.buf
        /\ CompressAgain(backend', loose', packed_file').loose = loose'
        /\ loose' = EmptyMap
        /\ CachedValues(CompressAgain(backend', loose', packed_file').b)
               = CachedValues(backend')]_vars

\* a compress has succeeded that packed a loose file, found the peel of a
\* tag and rewrote a packed-refs file that was there
C19_Witness ==
    /\ last.op = "compress"
    /\ last.rc = 0
    /\ packed_file.mtime >= 2
    /\ \E n \in DOMAIN backend.packfile :
           /\ PACKREF_WAS_LOOSE \in backend.packfile[n].flags
           /\ PACKREF_HAS_PEEL \in backend.packfile[n].flags

(***************************************************************************)
(* A write in progress and a reader in another process.  The writer is     *)
(* this instance, one step per access to the disk; the reader has a cache  *)
(* of its own and looks the name up while the writer runs.  The buffered   *)
(* file (git_filebuf) works on <path>.lock and commits by rename.          *)
(***************************************************************************)
\* the number of lookups the reader makes
MaxLookups == 3

\* the names that are written while the reader looks them up
ConcNames == {N_a, N_ab}

\* a git_filebuf_open that opens the file of the reference itself and
\* truncates it
git_filebuf_open_target(l, name) ==
    IF ParentIsFile(l, name)
    THEN [rc |-> -1, loose |-> l, lock |-> NoLock]
    ELSE [rc |-> 0,
          loose |-> [n \in (DOMAIN l) \cup {name} |->
                        IF n = name THEN <<>> ELSE l[n]],
          lock |-> [exists |-> TRUE, buf |-> <<>>]]

\* git_filebuf_open with GIT_FILEBUF_FORCE: <path>.lock is created empty,
\* the file at <path> is left alone: [rc, loose, lock]
git_filebuf_open(l, name) ==
    IF ParentIsFile(l, name)
    THEN [rc |-> -1, loose |-> l, lock |-> NoLock]
    ELSE [rc |-> 0, loose |-> l, lock |-> [exists |-> TRUE, buf |-> <<>>]]

\* git_filebuf_printf of text, as far as the next byte reaches the file
git_filebuf_printf(lock, text) ==
    [lock EXCEPT !.buf = Append(@, text[Len(@) + 1])]

\* git_filebuf_commit: <path>.lock is renamed onto <path>: [rc, loose, lock]
git_filebuf_commit(l, name, lock) ==
    IF IsNonEmptyDir(l, name)
    THEN [rc |-> -1, loose |-> l, lock |-> NoLock]
    ELSE [rc |-> 0,
          loose |-> [n \in (DOMAIN l) \cup {name} |->
                        IF n = name THEN lock.buf ELSE l[n]],
          lock |-> NoLock]

\* the name R.name holds the value v1 when write(R, force = true) starts
InitConc ==
    /\ backend = NewBackend
    /\ packed_file \in InitPacked
    /\ \E n \in ConcNames :
           /\ loose \in {EmptyMap}
                        \cup {[m \in {n} |-> LooseContent(r)] : r \in RefValues(n)}
           /\ refdb_fs_backend__lookup(NewBackend, loose, packed_file, n).rc = 0
           /\ conc \in {[NoConc EXCEPT
                            !.wref = r,
                            !.v1 = refdb_fs_backend__lookup(
                                       NewBackend, loose, packed_file, n).ref] :
                        r \in RefValues(n)}
    /\ conc.wref # conc.v1
    /\ last = Idle
    /\ written = [n \in Names |-> NoRef]
    /\ iter = NoIter
    /\ walk = NoWalk
    /\ failed_mtime = 0

\* refdb_fs_backend__write: reference_path_available with force
WriterCheck ==
    /\ conc.wpc = "idle"
    /\ backend' = reference_path_available(backend, loose, packed_file,
                                           conc.wref.name, <<>>, TRUE).b
    /\ conc' = [conc EXCEPT
                   !.wpc = IF reference_path_available(
                                 backend, loose, packed_file,
                                 conc.wref.name, <<>>, TRUE).rc < 0
                           THEN "done" ELSE "checked",
                   !.wrc = reference_path_available(
                               backend, loose, packed_file,
                               conc.wref.name, <<>>, TRUE).rc]
    /\ UNCHANGED <<loose, packed_file, last, written, iter, walk, failed_mtime>>

\* loose_write: git_futils_rmdir_r, which finds no empty directory to
\* remove since a directory is there only with a file below it, and
\* git_filebuf_open
WriterOpen ==
    /\ conc.wpc = "checked"
    /\ loose' = git_filebuf_open(loose, conc.wref.name).loose
    /\ conc' = [conc EXCEPT
                   !.wpc = IF git_filebuf_open(loose, conc.wref.name).rc < 0
                           THEN "done" ELSE "locked",
                   !.wrc = git_filebuf_open(loose, conc.wref.name).rc,
                   !.lock = git_filebuf_open(loose, conc.wref.name).lock]
    /\ UNCHANGED <<backend, packed_file, last, written, iter, walk, failed_mtime>>

\* loose_write: git_filebuf_printf, byte by byte
WriterPrintf ==
    /\ conc.wpc = "locked"
    /\ Len(conc.lock.buf) < Len(LooseContent(conc.wref))
    /\ conc' = [conc EXCEPT
                   !.lock = git_filebuf_printf(@, LooseContent(conc.wref))]
    /\ UNCHANGED <<backend, loose, packed_file, last, written, iter, walk,
                   failed_mtime>>

\* loose_write: git_filebuf_commit, and write returns
WriterCommit ==
    /\ conc.wpc = "locked"
    /\ conc.lock.buf = LooseContent(conc.wref)
    /\ loose' = git_filebuf_commit(loose, conc.wref.name, conc.lock).loose
    /\ conc' = [conc EXCEPT
                   !.wpc = "done",
                   !.wrc = git_filebuf_commit(loose, conc.wref.name, conc.lock).rc,
                   !.lock = git_filebuf_commit(loose, conc.wref.name, conc.lock).lock]
    /\ UNCHANGED <<backend, packed_file, last, written, iter, walk, failed_mtime>>

\* what the reader notes of a lookup that returned r: the code, the
\* reference and where the writer was
Observed(r) == [rc |-> r.rc, ref |-> r.ref, wpc |-> conc.wpc]

\* the reader's refdb_fs_backend__lookup: loose_lookup
ReaderLoose ==
    /\ conc.rpc = "idle"
    /\ Len(conc.obs) < MaxLookups
    /\ conc' = IF loose_lookup(loose, conc.wref.name).rc = GIT_ENOTFOUND
               THEN [conc EXCEPT !.rpc = "packed"]
               ELSE [conc EXCEPT
                        !.obs = Append(@, Observed(
                                    loose_lookup(loose, conc.wref.name)))]
    /\ UNCHANGED <<backend, loose, packed_file, last, written, iter, walk,
                   failed_mtime>>

\* the reader's refdb_fs_backend__lookup after the loose miss: packed_lookup
ReaderPacked ==
    /\ conc.rpc = "packed"
    /\ conc' = [conc EXCEPT
                   !.rpc = "idle",
                   !.reader = packed_lookup(@, packed_file, conc.wref.name).b,
                   !.obs = Append(@, Observed(packed_lookup(
                               conc.reader, packed_file, conc.wref.name)))]
    /\ UNCHANGED <<backend, loose, packed_file, last, written, iter, walk,
                   failed_mtime>>

NextConc ==
    \/ WriterCheck
    \/ WriterOpen
    \/ WriterPrintf
    \/ WriterCommit
    \/ ReaderLoose
    \/ ReaderPacked

SpecConc == InitConc /\ [][NextConc]_vars

\* the lookup that returned o has seen the value before the write
IsV1(o) == o.rc = 0 /\ o.ref = conc.v1

\* the lookup that returned o has seen the value written
IsV2(o) == o.rc = 0 /\ o.ref = conc.wref

(***************************************************************************)
(* C20: while write(R, force = true) replaces the value v1 of R.name       *)
(* (loose or packed only) by v2, every lookup(R.name) of a reader in       *)
(* another process returns v1 or v2, never NotFound and never a corrupt    *)
(* or partial value, and no lookup returns v1 after one has returned v2.   *)
(***************************************************************************)
C20_ReaderSeesOldOrNew ==
    /\ \A i \in 1..Len(conc.obs) : IsV1(conc.obs[i]) \/ IsV2(conc.obs[i])
    /\ \A i \in 1..Len(conc.obs) : \A j \in 1..Len(conc.obs) :
           i < j /\ IsV2(conc.obs[i]) => ~IsV1(conc.obs[j])

\* the reader has looked the name up before the write, while the lock file
\* was being written and after the commit, and has seen v1 and then v2
C20_Witness ==
    /\ conc.wpc = "done"
    /\ conc.wrc = 0
    /\ Len(conc.obs) = MaxLookups
    /\ conc.obs[1].wpc = "idle"
    /\ conc.obs[2].wpc = "locked"
    /\ IsV1(conc.obs[2])
    /\ IsV2(conc.obs[MaxLookups])

(***************************************************************************)
(* A compress in progress and a mutation of another process.  The          *)
(* compress is this instance, one step per phase: packed_load and          *)
(* packed_loadloose, the commit of the new packed-refs file, and           *)
(* packed_remove_loose.  The other process (cache conc.reader) completes   *)
(* one write or one delete between two of these steps.                     *)
(***************************************************************************)
\* the loose oid files the repository starts with: any of ConcNames
RaceLoose ==
    UNION {[S -> {<<HexTok(o), 10>> : o \in Oids}] : S \in SUBSET ConcNames}

InitRace ==
    /\ backend = NewBackend
    /\ loose \in RaceLoose
    /\ packed_file \in InitPacked
    /\ conc = NoConc
    /\ last = Idle
    /\ written = [n \in Names |-> NoRef]
    /\ iter = NoIter
    /\ walk = NoWalk
    /\ failed_mtime = 0

\* refdb_fs_backend__compress: packed_load and packed_loadloose
CompressLoad ==
    /\ conc.cpc = "idle"
    /\ backend' = LoadLoose(packed_load(backend, packed_file).b, loose,
                            DOMAIN loose)
    /\ conc' = [conc EXCEPT
                   !.cpc = IF packed_load(backend, packed_file).rc < 0
                           THEN "done" ELSE "loaded",
                   !.crc = packed_load(backend, packed_file).rc]
    /\ UNCHANGED <<loose, packed_file, last, written, iter, walk, failed_mtime>>

\* the cache and the buffer packed_write has after its loop over the list
PackingLoop(b) ==
    WriteLoop(b.packfile, SortNames(DOMAIN b.packfile), 1,
              GIT_PACKEDREFS_HEADER \o <<10>>, "none")

\* packed_write up to git_filebuf_commit
CompressCommit ==
    /\ conc.cpc = "loaded"
    /\ packed_file.mtime < MaxMtime + 1
    /\ backend' = [backend EXCEPT !.packfile = PackingLoop(backend).map]
    /\ packed_file' = CommitPacked(packed_file, PackingLoop(backend).buf)
    /\ conc' = [conc EXCEPT !.cpc = "committed"]
    /\ UNCHANGED <<loose, last, written, iter, walk, failed_mtime>>

\* packed_write from packed_remove_loose on: the loose files of the entries
\* that carry WAS_LOOSE are unlinked, the mtime of packed-refs is stored,
\* and compress returns
CompressUnlink ==
    /\ conc.cpc = "committed"
    /\ loose' = RemoveLoose(loose, backend.packfile, Cardinality(Names))
    /\ backend' = IF RemoveLooseFails(loose, backend.packfile) THEN backend
                  ELSE [backend EXCEPT !.packfile_time = packed_file.mtime]
    /\ conc' = [conc EXCEPT
                   !.cpc = "done",
                   !.crc = IF RemoveLooseFails(loose, backend.packfile)
                           THEN -1 ELSE 0]
    /\ UNCHANGED <<packed_file, last, written, iter, walk, failed_mtime>>

\* the compress has loaded the packed file and the loose references and has
\* not yet unlinked the loose files
InsideCompress == conc.cpc \in {"loaded", "committed"}

\* the other process completes write(ref, force = true)
RaceWrite(ref) ==
    /\ InsideCompress
    /\ conc.mut = NoMut
    /\ DoWrite(conc.reader, loose, packed_file, ref, TRUE).rc = 0
    /\ loose' = DoWrite(conc.reader, loose, packed_file, ref, TRUE).loose
    /\ conc' = [conc EXCEPT
                   !.reader = DoWrite(conc.reader, loose, packed_file, ref, TRUE).b,
                   !.mut = [op |-> "write", ref |-> ref, at |-> conc.cpc]]
    /\ UNCHANGED <<backend, packed_file, last, written, iter, walk, failed_mtime>>

\* the other process completes delete(n)
RaceDelete(n) ==
    /\ InsideCompress
    /\ conc.mut = NoMut
    /\ DoDelete(conc.reader, loose, packed_file, n, "none").rc = 0
    /\ DoDelete(conc.reader, loose, packed_file, n, "none").pf.mtime <= MaxMtime + 1
    /\ loose' = DoDelete(conc.reader, loose, packed_file, n, "none").loose
    /\ packed_file' = DoDelete(conc.reader, loose, packed_file, n, "none").pf
    /\ conc' = [conc EXCEPT
                   !.reader = DoDelete(conc.reader, loose, packed_file, n, "none").b,
                   !.mut = [op |-> "delete",
                            ref |-> [NoRef EXCEPT !.name = n], at |-> conc.cpc]]
    /\ UNCHANGED <<backend, last, written, iter, walk, failed_mtime>>

\* the other process looks the mutated name up once compress has returned
RaceLookup ==
    /\ conc.cpc = "done"
    /\ conc.mut # NoMut
    /\ conc.obs = <<>>
    /\ conc' = [conc EXCEPT
                   !.reader = refdb_fs_backend__lookup(
                                  @, loose, packed_file, conc.mut.ref.name).b,
                   !.obs = <<[rc |-> refdb_fs_backend__lookup(
                                         conc.reader, loose, packed_file,
                                         conc.mut.ref.name).rc,
                              ref |-> refdb_fs_backend__lookup(
                                          conc.reader, loose, packed_file,
                                          conc.mut.ref.name).ref,
                              wpc |-> conc.cpc]>>]
    /\ UNCHANGED <<backend, loose, packed_file, last, written, iter, walk,
                   failed_mtime>>

NextRace ==
    \/ CompressLoad
    \/ CompressCommit
    \/ CompressUnlink
    \/ \E ref \in UNION {RefValues(n) : n \in ConcNames} : RaceWrite(ref)
    \/ \E n \in ConcNames : RaceDelete(n)
    \/ RaceLookup

SpecRace == InitRace /\ [][NextRace]_vars

(***************************************************************************)
(* C21: a mutation another process completes while this process is inside  *)
(* compress() is not undone by that compress(): after compress() has       *)
(* finished, lookup returns the reference a write(R, force = true) has     *)
(* written, and NotFound for a name that was deleted.                      *)
(***************************************************************************)
C21_CompressKeepsMutation ==
    conc.cpc = "done" /\ conc.crc = 0 /\ conc.obs # <<>> =>
        /\ conc.mut.op = "write" =>
               conc.obs[1].rc = 0 /\ conc.obs[1].ref = conc.mut.ref
        /\ conc.mut.op = "delete" => conc.obs[1].rc = GIT_ENOTFOUND

\* the other process has written or deleted inside a compress that
\* succeeded, and has looked the name up afterwards
C21_Witness ==
    /\ conc.cpc = "done"
    /\ conc.crc = 0
    /\ conc.mut.op \in {"write", "delete"}
    /\ conc.obs # <<>>

(***************************************************************************)
(* A delete in progress and a reader in another process.  The delete is    *)
(* this instance in two steps, the unlink of the loose file and the        *)
(* rewrite of packed-refs; conc.wref.name is the name deleted and conc.v1  *)
(* the value it had when the delete started.  The reader is the one of     *)
(* SpecConc.                                                               *)
(***************************************************************************)
InitDel ==
    /\ backend = NewBackend
    /\ loose \in RaceLoose
    /\ packed_file \in InitPacked
    /\ \E n \in ConcNames :
           /\ refdb_fs_backend__lookup(NewBackend, loose, packed_file, n).rc = 0
           /\ conc = [NoConc EXCEPT
                         !.wref = [NoRef EXCEPT !.name = n],
                         !.v1 = refdb_fs_backend__lookup(
                                    NewBackend, loose, packed_file, n).ref]
    /\ last = Idle
    /\ written = [n \in Names |-> NoRef]
    /\ iter = NoIter
    /\ walk = NoWalk
    /\ failed_mtime = 0

\* refdb_fs_backend__delete: git_path_isfile and p_unlink of the loose file
DeleteUnlink ==
    /\ conc.wpc = "idle"
    /\ loose' = IF git_path_isfile(loose, JoinPath(BackendPath, conc.wref.name))
                THEN Unlink(loose, conc.wref.name) ELSE loose
    /\ conc' = [conc EXCEPT
                   !.wpc = IF git_path_isfile(
                                 loose, JoinPath(BackendPath, conc.wref.name))
                           THEN "unlinked" ELSE "nofile"]
    /\ UNCHANGED <<backend, packed_file, last, written, iter, walk, failed_mtime>>

\* refdb_fs_backend__delete from packed_map_entry on: the entry leaves the
\* cache, packed_write rewrites packed-refs, and delete returns
DeleteRepack ==
    /\ conc.wpc \in {"unlinked", "nofile"}
    /\ backend' = delete_entry(
                      packed_map_entry(backend, packed_file, conc.wref.name),
                      conc.wpc = "unlinked", loose, packed_file,
                      conc.wref.name, "none").b
    /\ loose' = delete_entry(
                    packed_map_entry(backend, packed_file, conc.wref.name),
                    conc.wpc = "unlinked", loose, packed_file,
                    conc.wref.name, "none").loose
    /\ packed_file' = delete_entry(
                          packed_map_entry(backend, packed_file, conc.wref.name),
                          conc.wpc = "unlinked", loose, packed_file,
                          conc.wref.name, "none").pf
    /\ conc' = [conc EXCEPT
                   !.wpc = "done",
                   !.wrc = delete_entry(
                               packed_map_entry(backend, packed_file,
                                                conc.wref.name),
                               conc.wpc = "unlinked", loose, packed_file,
                               conc.wref.name, "none").rc]
    /\ UNCHANGED <<last, written, iter, walk, failed_mtime>>

NextDel ==
    \/ DeleteUnlink
    \/ DeleteRepack
    \/ ReaderLoose
    \/ ReaderPacked

SpecDel == InitDel /\ [][NextDel]_vars

(***************************************************************************)
(* C22: while delete(N) runs, every lookup(N) of a reader in another       *)
(* process returns the value N had before the delete started or NotFound;  *)
(* when a loose file shadows a packed entry of another oid, no reader      *)
(* sees the oid of the packed entry.                                       *)
(***************************************************************************)
C22_ReaderSeesOldOrNotFound ==
    \A i \in 1..Len(conc.obs) :
        IsV1(conc.obs[i]) \/ conc.obs[i].rc = GIT_ENOTFOUND

\* a loose file that shadowed a packed entry of another oid was deleted and
\* the reader has looked the name up after the unlink
C22_Witness ==
    /\ conc.wpc = "done"
    /\ conc.wrc = 0
    /\ conc.v1.oid = 2
    /\ conc.wref.name \in PackedNames([exists |-> TRUE, mtime |-> 1,
                                       buf |-> GitPackedBuf])
    /\ \E i \in 1..Len(conc.obs) : conc.obs[i].wpc = "unlinked"

(***************************************************************************)
(* A value iterator of this instance and a compress of another process     *)
(* (cache conc.reader) that runs between the construction of the iterator  *)
(* and its next() calls.  conc.before holds what lookup returned for each  *)
(* name when the iterator was constructed.                                 *)
(***************************************************************************)
InitIterRace ==
    /\ backend = NewBackend
    /\ loose \in RaceLoose
    /\ packed_file \in InitPacked
    /\ conc = [NoConc EXCEPT
                  !.before = [n \in Names |->
                                 refdb_fs_backend__lookup(
                                     NewBackend, loose, packed_file, n)]]
    /\ last = Idle
    /\ written = [n \in Names |-> NoRef]
    /\ iter = NoIter
    /\ walk = NoWalk
    /\ failed_mtime = 0

\* the other process runs compress() while this instance holds its iterator
OtherCompress ==
    /\ iter.open
    /\ conc.mut = NoMut
    /\ DoCompress(conc.reader, loose, packed_file, DOMAIN loose, "none").rc = 0
    /\ loose' = DoCompress(conc.reader, loose, packed_file, DOMAIN loose,
                           "none").loose
    /\ packed_file' = DoCompress(conc.reader, loose, packed_file, DOMAIN loose,
                                 "none").pf
    /\ conc' = [conc EXCEPT
                   !.reader = DoCompress(conc.reader, loose, packed_file,
                                         DOMAIN loose, "none").b,
                   !.mut = [op |-> "compress", ref |-> NoRef,
                            at |-> IF walk.out = <<>> THEN "idle" ELSE "next"]]
    /\ UNCHANGED <<backend, last, written, iter, walk, failed_mtime>>

NextIterRace ==
    \/ \E glob \in Globs : Iterator(glob, FALSE)
    \/ IteratorNext
    \/ OtherCompress
    \/ Return

SpecIterRace == InitIterRace /\ [][NextIterRace]_vars

\* the name n has held the same value from the construction of the
\* iterator on
SameValueThroughout(n) ==
    /\ conc.before[n].rc = 0
    /\ SameLookup(conc.before[n],
                  refdb_fs_backend__lookup(NewBackend, loose, packed_file, n))

(***************************************************************************)
(* C23: a name that exists with the same value during the whole lifetime   *)
(* of a value iterator and matches its glob is emitted exactly once, also  *)
(* when another process runs compress() between the construction of the    *)
(* iterator and its next() calls and moves the name from its loose file    *)
(* into the packed file.                                                   *)
(***************************************************************************)
C23_IteratorUnderCompress ==
    iter.open /\ ~walk.names /\ walk.over =>
        \A n \in Names :
            SameValueThroughout(n) /\ ~GlobRejects(iter.glob, n) =>
                TimesEmitted(n) = 1

\* the walk is over, and the other process has packed a loose file the
\* iterator had collected before the first next()
C23_Witness ==
    /\ iter.open
    /\ ~walk.names
    /\ walk.over
    /\ conc.mut.op = "compress"
    /\ conc.mut.at = "idle"
    /\ \E i \in 1..Len(iter.loose) :
           /\ iter.loose[i] \notin DOMAIN loose
           /\ SameValueThroughout(iter.loose[i])

(***************************************************************************)
(* The header line of packed-refs.  The repository starts with a           *)
(* packed-refs file whose first line is "# pack-refs with:" followed by    *)
(* up to MaxTraits traits, each preceded by one space, and LF; the         *)
(* instance reads it with its first packed_load.                           *)
(***************************************************************************)
\* the number of traits of a header line
MaxTraits == 3

\* "sorted" and "x", two traits the parser does not know
Str_sorted == <<115, 111, 114, 116, 101, 100>>
Str_x == <<120>>

\* the traits a header line is made of
TraitKinds == {Str_peeled, Str_fully_peeled, Str_sorted, Str_x}

\* the trait lists of a header line
TraitLists == UNION {[1..k -> TraitKinds] : k \in 0..MaxTraits}

\* the traits of ts from the i-th on, each preceded by one space
RECURSIVE TraitsText(_, _)
TraitsText(ts, i) ==
    IF i > Len(ts) THEN <<>>
    ELSE <<32>> \o ts[i] \o TraitsText(ts, i + 1)

\* the header line of the grammar: "# pack-refs with:" (" " trait)* LF
HeaderLine(ts) ==
    SubSeq(traits_header, 1, Len(traits_header) - 1) \o TraitsText(ts, 1)
    \o <<10>>

\* a packed-refs file with the header line of ts and the entry refs/a
HeaderFile(ts) ==
    [exists |-> TRUE, mtime |-> 1,
     buf |-> HeaderLine(ts) \o <<HexTok(1), 32>> \o N_a \o <<10>>]

InitHeader ==
    /\ backend = NewBackend
    /\ loose = EmptyMap
    /\ packed_file \in {HeaderFile(ts) : ts \in TraitLists}
    /\ conc = NoConc
    /\ last = Idle
    /\ written = [n \in Names |-> NoRef]
    /\ iter = NoIter
    /\ walk = NoWalk
    /\ failed_mtime = 0

NextHeader ==
    \/ \E n \in Names : Lookup(n)
    \/ \E n \in Names : Exists(n)
    \/ Return

SpecHeader == InitHeader /\ [][NextHeader]_vars

\* the peeling mode a trait list stands for
TraitsMode(ts) ==
    IF \E i \in 1..Len(ts) : ts[i] = Str_fully_peeled THEN PEELING_FULL
    ELSE IF \E i \in 1..Len(ts) : ts[i] = Str_peeled THEN PEELING_STANDARD
    ELSE PEELING_NONE

\* this instance has read the packed-refs file that is on disk
HeaderLoaded ==
    backend.has_map /\ backend.packfile_time = packed_file.mtime

(***************************************************************************)
(* C24: for every header line "# pack-refs with:" followed by zero or more *)
(* traits, each preceded by one space, and LF, the peeling mode the parser *)
(* derives is Full if fully-peeled is among the traits, else Standard if   *)
(* peeled is, else None, wherever the trait stands in the list and         *)
(* whatever unknown traits surround it.                                    *)
(***************************************************************************)
C24_HeaderMode ==
    HeaderLoaded =>
        \A ts \in TraitLists :
            packed_file = HeaderFile(ts) => backend.peeling_mode = TraitsMode(ts)

\* a header line with fully-peeled between two other traits has been read
C24_Witness ==
    /\ HeaderLoaded
    /\ \E ts \in TraitLists :
           /\ Len(ts) = 3
           /\ ts[2] = Str_fully_peeled
           /\ packed_file = HeaderFile(ts)
           /\ backend.peeling_mode = PEELING_FULL

(***************************************************************************)
(* The round trip of the packed map.  The repository starts with a         *)
(* packed-refs file that holds any oids and peels for the names of         *)
(* ConcNames, with or without the header line git writes, and with loose   *)
(* files; compress and delete rewrite the file from the cached map.        *)
(***************************************************************************)
\* the lines of one entry as git writes them; peel 0 stands for no peel line
EntryLines(n, o, p) ==
    <<HexTok(o), 32>> \o n \o <<10>>
    \o (IF p = ZeroOid THEN <<>> ELSE <<94, HexTok(p), 10>>)

\* what a packed-refs file says about one name: nothing, or its lines
EntryTexts(n) ==
    {<<>>} \cup {EntryLines(n, o, p) : o \in Oids, p \in 0..MaxOid}

\* the header lines the file starts with: none, or the one of git
HeaderTexts ==
    {<<>>, traits_header \o Str_peeled \o <<32>> \o Str_fully_peeled \o <<32, 10>>}

\* the buffers of the packed-refs files the repository starts with
RoundTripBufs ==
    {h \o ea \o eab : h \in HeaderTexts, ea \in EntryTexts(N_a),
                      eab \in EntryTexts(N_ab)}

InitRoundTrip ==
    /\ backend = NewBackend
    /\ loose \in RaceLoose
    /\ packed_file \in {[exists |-> TRUE, mtime |-> 1, buf |-> bf] :
                        bf \in RoundTripBufs}
    /\ conc = NoConc
    /\ last = Idle
    /\ written = [n \in Names |-> NoRef]
    /\ iter = NoIter
    /\ walk = NoWalk
    /\ failed_mtime = 0

NextRoundTrip ==
    \/ \E n \in ConcNames : Lookup(n)
    \/ \E n \in ConcNames : Delete(n, "none")
    \/ \E seen \in SeenSets(loose) : Compress(seen, "none")
    \/ Return

SpecRoundTrip == InitRoundTrip /\ [][NextRoundTrip]_vars

\* the maps m1 and m2 hold the same names, the same oid per name, HAS_PEEL
\* on the same entries and the same peel for those
SameEntries(m1, m2) ==
    /\ DOMAIN m1 = DOMAIN m2
    /\ \A n \in DOMAIN m1 :
           /\ m1[n].oid = m2[n].oid
           /\ (PACKREF_HAS_PEEL \in m1[n].flags) = (PACKREF_HAS_PEEL \in m2[n].flags)
           /\ PACKREF_HAS_PEEL \in m1[n].flags => m1[n].peel = m2[n].peel

(***************************************************************************)
(* C25: parsing the file the packed writer has produced from a packed map  *)
(* yields a map with the same set of names, the same oid per name,         *)
(* HAS_PEEL on exactly the same entries and the same peel for those.  The  *)
(* map is the cached map packed_write_ref has written, that is with the    *)
(* peels packed_find_peel has found.                                       *)
(***************************************************************************)
C25_RoundTrip ==
    [][packed_file'.buf # packed_file.buf =>
        /\ ParsePacked(packed_file'.buf).ok
        /\ SameEntries(ParsePacked(packed_file'.buf).map, backend'.packfile)]_vars

\* a map of two entries, one of them with a peel, has been written
C25_Witness ==
    /\ last.op \in {"compress", "delete"}
    /\ last.rc = 0
    /\ packed_file.mtime = 2
    /\ Cardinality(DOMAIN backend.packfile) = 2
    /\ \E n \in DOMAIN backend.packfile :
           PACKREF_HAS_PEEL \in backend.packfile[n].flags
    /\ \E n \in DOMAIN backend.packfile :
           PACKREF_HAS_PEEL \notin backend.packfile[n].flags

(***************************************************************************)
(* The peel flags of the cache.  The repository starts with a packed-refs  *)
(* file that holds refs/a and the tag refs/tags/t, with or without a peel  *)
(* line, under no header, a header that yields PEELING_STANDARD or the     *)
(* header of git, which yields PEELING_FULL; the file may be replaced from *)
(* outside, and the instance refreshes, deletes and compresses.            *)
(***************************************************************************)
\* "refs/tags/t"
N_tag == GIT_REFS_TAGS_DIR \o <<116>>

\* the header lines: none, "# pack-refs with: x peeled \n" and
\* "# pack-refs with: peeled fully-peeled \n"
PeelHeaders ==
    {<<>>,
     traits_header \o Str_x \o <<32>> \o Str_peeled \o <<32, 10>>,
     traits_header \o Str_peeled \o <<32>> \o Str_fully_peeled \o <<32, 10>>}

\* what the file says about the name n: nothing, an object that is no tag,
\* a tag without peel line, or a tag with its peel line
PeelEntryTexts(n) ==
    {<<>>, EntryLines(n, 1, ZeroOid), EntryLines(n, 2, ZeroOid),
     EntryLines(n, 2, 1)}

\* the buffers of the packed-refs files of this repository
PeelBufs ==
    {h \o ea \o et : h \in PeelHeaders, ea \in PeelEntryTexts(N_a),
                     et \in PeelEntryTexts(N_tag)}

InitPeel ==
    /\ backend = NewBackend
    /\ loose \in RaceLoose
    /\ packed_file \in {[exists |-> TRUE, mtime |-> 1, buf |-> bf] :
                        bf \in PeelBufs}
    /\ conc = NoConc
    /\ last = Idle
    /\ written = [n \in Names |-> NoRef]
    /\ iter = NoIter
    /\ walk = NoWalk
    /\ failed_mtime = 0

NextPeel ==
    \/ \E n \in ConcNames \cup {N_tag} : Lookup(n)
    \/ \E n \in ConcNames \cup {N_tag} : Delete(n, "none")
    \/ \E seen \in SeenSets(loose), fault \in Faults : Compress(seen, fault)
    \/ \E bf \in PeelBufs : ReplacePacked(bf)
    \/ Return

SpecPeel == InitPeel /\ [][NextPeel]_vars

\* the entry ref of a cache in peeling mode mode carries the flags the
\* header stands for
PeelFlagsOfMode(ref, mode) ==
    /\ (mode = PEELING_FULL /\ PACKREF_HAS_PEEL \notin ref.flags)
           => PACKREF_CANNOT_PEEL \in ref.flags
    /\ (mode = PEELING_STANDARD /\ HasPrefix(ref.name, GIT_REFS_TAGS_DIR)
           /\ PACKREF_HAS_PEEL \notin ref.flags)
           => PACKREF_CANNOT_PEEL \in ref.flags

\* HAS_PEEL and CANNOT_PEEL are not both set on ref
PeelFlagsExclusive(ref) ==
    ~(PACKREF_HAS_PEEL \in ref.flags /\ PACKREF_CANNOT_PEEL \in ref.flags)

(***************************************************************************)
(* C26 as stated: in every state of the cache, after any sequence of       *)
(* refreshes, compress and delete, no entry has both HAS_PEEL and          *)
(* CANNOT_PEEL; under PEELING_FULL every entry without HAS_PEEL has        *)
(* CANNOT_PEEL, and under PEELING_STANDARD every entry below refs/tags/    *)
(* without HAS_PEEL has it, the entries compress inserts from loose files  *)
(* included.                                                               *)
(***************************************************************************)
C26_PeelFlags ==
    \A n \in DOMAIN backend.packfile :
        /\ PeelFlagsExclusive(backend.packfile[n])
        /\ PeelFlagsOfMode(backend.packfile[n], backend.peeling_mode)

(***************************************************************************)
(* C26 amended: no entry has both HAS_PEEL and CANNOT_PEEL, and the two    *)
(* statements about the peeling mode hold for every entry that was parsed  *)
(* from the packed-refs file, that is every entry without WAS_LOOSE; an    *)
(* entry compress has inserted from a loose file never carries             *)
(* CANNOT_PEEL, whatever the peeling mode: packed_find_peel looks its      *)
(* object up and sets HAS_PEEL if it is a tag.                             *)
(***************************************************************************)
C26_PeelFlagsParsed ==
    \A n \in DOMAIN backend.packfile :
        /\ PeelFlagsExclusive(backend.packfile[n])
        /\ (PACKREF_WAS_LOOSE \notin backend.packfile[n].flags
               => PeelFlagsOfMode(backend.packfile[n], backend.peeling_mode))

\* under PEELING_STANDARD the cache holds the tag without peel as parsed
\* from the file, and an entry compress has inserted from a loose file
C26_Witness ==
    /\ last.op = "compress"
    /\ backend.peeling_mode = PEELING_STANDARD
    /\ N_tag \in DOMAIN backend.packfile
    /\ PACKREF_CANNOT_PEEL \in backend.packfile[N_tag].flags
    /\ \E n \in DOMAIN backend.packfile :
           backend.packfile[n].flags = {PACKREF_WAS_LOOSE}

====
